---- MODULE Spec2Model ----
(***************************************************************************)
(* A model of the content monitoring plugin: the per-source identifier     *)
(* trackers (models/zhihu.py, models/bilibili.py, core/state.py,           *)
(* core/zhihu_state.py), the monitoring passes (core/monitor.py,           *)
(* core/zhihu_rss.py), the report aggregator                               *)
(* (services/report_aggregator.py, models/report.py), the search engine    *)
(* (services/content_search.py) and the archive store                      *)
(* (services/archive_service.py).                                          *)
(*                                                                         *)
(* Each component has its own specification over the same variables:       *)
(*   Spec        the tracker operations called one at a time               *)
(*   SpecPass    monitoring passes over lists of sources                   *)
(*   SpecAgg     ReportAggregator.aggregate_all                            *)
(*   SpecSearch  ContentSearchEngine.search                                *)
(*   SpecArchive ArchiveManager                                            *)
(* A specification leaves the variables of the other components at their   *)
(* initial values.                                                         *)
(***************************************************************************)
EXTENDS Integers, Sequences, FiniteSets, TLC

VARIABLES
    feeds,        \* ZhihuMonitorState.feeds: feed_url -> ZhihuFeedState
    up_masters,   \* MonitorState.up_masters: mid -> UPMasterState
    now,          \* the value datetime.now() returns
    lastCall,     \* the latest tracker call and what it returned
    feed_log,     \* history: per feed, the identifiers in the order they were inserted
    up_log,       \* history: per UP master, the identifiers in the order they were inserted
    nOps,         \* history: how many tracker calls changed a tracker
    pass,         \* the monitoring pass in progress: its configs, position and reports
    expect,       \* history: per report of the pass, what the check of that source met
    fails,        \* history: per source, the failed checks since its last successful one
    checked,      \* history: per source, the time of its latest check (0: never)
    agg_in,       \* the arguments of one call of aggregate_all
    agg_out,      \* what the call did: pending, raised, or returned a DailyReport
    index,        \* ArchiveManager.index.archives, the index in memory
    index_file,   \* the index file index.json of the archive directory
    files,        \* the payload files report_<archive_id>.json, per archive_id
    arch_last,    \* the latest call of the archive manager and what it returned
    first,        \* history: per archive_id the index holds, the metadata and the
                  \* payload file as they were when the entry entered the index
    content_index,\* ContentSearchEngine.content_index
    search_out,   \* the call of search in progress: its query and its results
    content_history, \* MonitorState.content_history of the Bilibili state
    cmd_last,     \* the last /search or /filter command: what it indexed and replied
    store,        \* the manager followed, its state file, its temporary file and
                  \* the state it holds
    io_last,      \* the last load or save of the manager: the file before and
                  \* after, and the outcome
    run,          \* one execution of _execute_task_with_retry: its position, its
                  \* counters and the task status
    score_io,     \* one item to score: its inputs and, once scored, its importance score
    cat_io,       \* one title and summary to categorise and, once done, the category
    rm_last,      \* the latest call of remove_old_content: its days and the index before it
    sched,        \* SchedulerManager: is_running, tasks and simple_tasks
    loops,        \* the asyncio tasks running task_loop, by slot
    hist          \* history: per task whether it ran since it was scheduled, whether it was stopped, and whether a stopped task was invoked

trackerVars == <<feeds, up_masters, now, lastCall, feed_log, up_log, nOps>>
passVars == <<pass, expect, fails, checked>>
aggVars == <<agg_in, agg_out>>
archiveVars == <<index, index_file, files, arch_last, first>>
searchVars == <<content_index, search_out>>
cmdVars == <<content_history, cmd_last>>
storeVars == <<store, io_last>>
retryVars == <<run>>
scoreVars == <<score_io>>
catVars == <<cat_io>>
removeVars == <<rm_last>>
schedVars == <<sched, loops, hist>>

----------------------------------------------------------------------------
(* Bounds of the model *)

\* ZhihuFeedState keeps the last 1000 identifiers (models/zhihu.py:101-102);
\* the model keeps the last ProcessedCap.
ProcessedCap == 2

\* how many tracker calls that change a tracker one behaviour makes
MaxOps == 4

Ids == {"a", "b", "c"}
Feeds == {"f1", "f2"}
Mids == {"m1", "m2"}

None == "None"

----------------------------------------------------------------------------
(* Python helpers *)

Range(s) == {s[i] : i \in 1..Len(s)}

\* s[-n:]  (for n = 0 this is s[0:], the whole list)
LastN(s, n) ==
    IF n = 0 \/ Len(s) <= n THEN s ELSE SubSeq(s, Len(s) - n + 1, Len(s))

\* s[:n]
FirstN(s, n) == IF Len(s) <= n THEN s ELSE SubSeq(s, 1, n)

----------------------------------------------------------------------------
(* models/zhihu.py: ZhihuFeedState *)

ZhihuFeedState ==
    [processed_items |-> <<>>, last_check_time |-> 0,
     last_error |-> None, error_count |-> 0]

is_item_new(fs, item_id) == \A i \in 1..Len(fs.processed_items) : fs.processed_items[i] # item_id

\* a variant that trims with [:cap] where the code trims with [-cap:]
mark_item_processed_keep_first(fs, item_id) ==
    IF item_id \notin Range(fs.processed_items)
    THEN LET appended == Append(fs.processed_items, item_id)
         IN  [fs EXCEPT !.processed_items =
                 IF Len(appended) > ProcessedCap
                 THEN FirstN(appended, ProcessedCap) ELSE appended]
    ELSE fs

mark_item_processed(fs, item_id) ==
    IF item_id \notin Range(fs.processed_items)
    THEN LET appended == Append(fs.processed_items, item_id)
         IN  [fs EXCEPT !.processed_items =
                 IF Len(appended) > ProcessedCap
                 THEN LastN(appended, ProcessedCap) ELSE appended]
    ELSE fs

(* models/bilibili.py: UPMasterState *)

UPMasterState == [last_check_time |-> 0, processed_videos |-> {}]

mark_video_processed(us, bvid) ==
    [us EXCEPT !.processed_videos = @ \cup {bvid}]

is_video_processed(us, bvid) == bvid \in us.processed_videos

(* core/state.py: StateManager *)

is_video_new(us, bvid) == ~ is_video_processed(us, bvid)

RECURSIVE mark_all_videos(_, _)
mark_all_videos(us, bvids) ==
    IF bvids = <<>> THEN us
    ELSE mark_all_videos(mark_video_processed(us, Head(bvids)), Tail(bvids))

\* update_up_state(mid, processed_videos = bvids), called by mark_videos_processed
update_up_state(us, bvids, t) ==
    mark_all_videos([us EXCEPT !.last_check_time = t], bvids)

----------------------------------------------------------------------------
(* The tracker operations, called one at a time *)

TrackerInit ==
    /\ feeds = [f \in Feeds |-> ZhihuFeedState]
    /\ up_masters = [m \in Mids |-> UPMasterState]
    /\ now = 1
    /\ lastCall = [op |-> "none"]
    /\ feed_log = [f \in Feeds |-> <<>>]
    /\ up_log = [m \in Mids |-> <<>>]
    /\ nOps = 0

\* ZhihuStateManager.is_item_new(feed_url, item_id)
IsItemNew(f, id) ==
    /\ lastCall' = [op |-> "is_new", kind |-> "zhihu", src |-> f, id |-> id,
                    result |-> is_item_new(feeds[f], id),
                    afterMark |-> /\ lastCall.op = "mark_seen"
                                  /\ lastCall.src = f /\ lastCall.id = id]
    /\ UNCHANGED <<feeds, up_masters, now, feed_log, up_log, nOps>>

\* ZhihuFeedState.mark_item_processed(item_id)
MarkItemProcessed(f, id) ==
    /\ nOps < MaxOps
    /\ feeds' = [feeds EXCEPT ![f] = mark_item_processed(@, id)]
    /\ feed_log' = [feed_log EXCEPT ![f] =
                       IF id \in Range(feeds[f].processed_items) THEN @ ELSE Append(@, id)]
    /\ lastCall' = [op |-> "mark_seen", kind |-> "zhihu", src |-> f, id |-> id]
    /\ nOps' = nOps + 1
    /\ UNCHANGED <<up_masters, now, up_log>>

\* ZhihuStateManager.cleanup_old_processed_items(feed_url, keep_count)
CleanupOldProcessedItems(f, keep_count) ==
    /\ nOps < MaxOps
    /\ feeds' = [feeds EXCEPT ![f].processed_items =
                    IF Len(@) > keep_count THEN LastN(@, keep_count) ELSE @]
    /\ lastCall' = [op |-> "cleanup", kind |-> "zhihu", src |-> f, keep |-> keep_count]
    /\ nOps' = nOps + 1
    /\ UNCHANGED <<up_masters, now, feed_log, up_log>>

\* StateManager.is_video_new(mid, bvid)
IsVideoNew(m, bvid) ==
    /\ lastCall' = [op |-> "is_new", kind |-> "bilibili", src |-> m, id |-> bvid,
                    result |-> is_video_new(up_masters[m], bvid),
                    afterMark |-> /\ lastCall.op = "mark_seen"
                                  /\ lastCall.src = m /\ lastCall.id = bvid]
    /\ UNCHANGED <<feeds, up_masters, now, feed_log, up_log, nOps>>

\* StateManager.mark_videos_processed(mid, [bvid])
MarkVideosProcessed(m, bvid) ==
    /\ nOps < MaxOps
    /\ up_masters' = [up_masters EXCEPT ![m] = update_up_state(@, <<bvid>>, now)]
    /\ up_log' = [up_log EXCEPT ![m] =
                     IF bvid \in up_masters[m].processed_videos THEN @ ELSE Append(@, bvid)]
    /\ lastCall' = [op |-> "mark_seen", kind |-> "bilibili", src |-> m, id |-> bvid]
    /\ nOps' = nOps + 1
    /\ UNCHANGED <<feeds, now, feed_log>>

\* StateManager.cleanup_old_processed_videos(mid, keep_count): list(set) has the
\* set's iteration order, which is unrelated to the order of insertion, so the
\* keep_count elements that stay are any keep_count of them (all of them for
\* keep_count = 0, where the slice [-0:] is the whole list).
CleanupOldProcessedVideos(m, keep_count) ==
    /\ nOps < MaxOps
    /\ \E kept \in SUBSET up_masters[m].processed_videos :
          /\ IF Cardinality(up_masters[m].processed_videos) > keep_count /\ keep_count > 0
             THEN Cardinality(kept) = keep_count
             ELSE kept = up_masters[m].processed_videos
          /\ up_masters' = [up_masters EXCEPT ![m].processed_videos = kept]
    /\ lastCall' = [op |-> "cleanup", kind |-> "bilibili", src |-> m, keep |-> keep_count]
    /\ nOps' = nOps + 1
    /\ UNCHANGED <<feeds, now, feed_log, up_log>>

TrackerNext ==
    \/ \E f \in Feeds, id \in Ids : IsItemNew(f, id)
    \/ \E f \in Feeds, id \in Ids : MarkItemProcessed(f, id)
    \/ \E f \in Feeds, k \in 0..ProcessedCap : CleanupOldProcessedItems(f, k)
    \/ \E m \in Mids, id \in Ids : IsVideoNew(m, id)
    \/ \E m \in Mids, id \in Ids : MarkVideosProcessed(m, id)
    \/ \E m \in Mids, k \in 0..ProcessedCap : CleanupOldProcessedVideos(m, k)

----------------------------------------------------------------------------
(* Monitoring passes: core/zhihu_rss.py and core/monitor.py *)

\* how many checks one behaviour makes (each check reads the clock once)
MaxChecks == 2

\* feedparser entries: the guid and link of the entry, and whether parsing it raises
ZhihuEntries ==
    { [guid |-> "a", link |-> "a", raises |-> FALSE],
      [guid |-> "",  link |-> "b", raises |-> FALSE],
      [guid |-> "",  link |-> "",  raises |-> FALSE],
      [guid |-> "c", link |-> "c", raises |-> TRUE] }

\* videos of an archive page: bvid "" stands for a video without bvid
Videos == { [bvid |-> "a"], [bvid |-> "b"], [bvid |-> ""] }

SeqsUpTo2(S) == {<<>>} \cup {<<x>> : x \in S} \cup {<<x, y>> : x \in S, y \in S}

\* ZhihuFeedConfig.max_items (models/zhihu.py:54 has 10)
max_items == 2

ZhihuConfigs == [feed_url : Feeds, enabled : BOOLEAN]
UPMasterConfigs == [mid : Mids]

Seqs1To2(S) == {<<x>> : x \in S} \cup {<<x, y>> : x \in S, y \in S}

PassIdle ==
    /\ pass = [status |-> "idle", kind |-> "none", configs |-> <<>>, i |-> 1, reports |-> <<>>]
    /\ expect = <<>>
    /\ fails = [s \in Feeds \cup Mids |-> 0]
    /\ checked = [s \in Feeds \cup Mids |-> 0]

\* ZhihuFeedItem.get_id: self.guid or self.link
get_id(item) == IF item.guid # "" THEN item.guid ELSE item.link

\* the loop of check_feed over entries[:max_items], up to the first entry whose
\* parsing raises: st is [fs, new_items, raised]
RECURSIVE check_feed_loop(_, _)
check_feed_loop(st, entries) ==
    IF entries = <<>> \/ st.raised THEN st
    ELSE LET entry == Head(entries)
             item_id == get_id(entry)
         IN  IF entry.raises
             THEN [st EXCEPT !.raised = TRUE]
             ELSE IF is_item_new(st.fs, item_id)
                  THEN check_feed_loop(
                          [st EXCEPT !.new_items = Append(@, entry),
                                     !.fs = mark_item_processed(@, item_id)],
                          Tail(entries))
                  ELSE check_feed_loop(st, Tail(entries))

ZhihuMonitorReport(config, new_items, error) ==
    [src |-> config.feed_url, new_items |-> new_items, error |-> error]

\* ZhihuRSSClient.check_feed: the feed state and the report it leaves, for each
\* thing fetch_feed can do (raise, return a feed with bozo set, return entries)
check_feed(fs, config, check_time, fetched) ==
    IF fetched.outcome = "raise"
    THEN [fs |-> [fs EXCEPT !.last_error = "Failed to check feed",
                            !.error_count = @ + 1,
                            !.last_check_time = check_time],
          report |-> ZhihuMonitorReport(config, <<>>, "Failed to check feed")]
    ELSE IF fetched.outcome = "bozo"
    THEN [fs |-> [fs EXCEPT !.last_error = "bozo_exception",
                            !.error_count = @ + 1],
          report |-> ZhihuMonitorReport(config, <<>>, "bozo_exception")]
    ELSE LET st == check_feed_loop([fs |-> fs, new_items |-> <<>>, raised |-> FALSE],
                                   FirstN(fetched.entries, max_items))
         IN  IF st.raised
             THEN [fs |-> [st.fs EXCEPT !.last_error = "Failed to check feed",
                                        !.error_count = @ + 1,
                                        !.last_check_time = check_time],
                   report |-> ZhihuMonitorReport(config, <<>>, "Failed to check feed")]
             ELSE [fs |-> [st.fs EXCEPT !.last_check_time = check_time,
                                        !.last_error = None,
                                        !.error_count = 0],
                   report |-> ZhihuMonitorReport(config, st.new_items, None)]

ZhihuFetched ==
    {[outcome |-> "raise"], [outcome |-> "bozo"]}
      \cup {[outcome |-> "entries", entries |-> b] : b \in SeqsUpTo2(ZhihuEntries)}

\* a well-formed record has a url and its parsing does not raise (titles are
\* not modelled)
WellFormedEntry(entry) == ~ entry.raises /\ entry.link # ""

WellFormedIds(entries) ==
    {get_id(entries[k]) : k \in {j \in 1..Len(entries) : WellFormedEntry(entries[j])}}

HasMalformed(entries) == \E k \in 1..Len(entries) : ~ WellFormedEntry(entries[k])

\* whether the check that met `fetched` failed
ZhihuFailed(fetched) ==
    \/ fetched.outcome \in {"raise", "bozo"}
    \/ /\ fetched.outcome = "entries"
       /\ \E i \in 1..Len(fetched.entries) : i <= max_items /\ fetched.entries[i].raises

\* main.py zhihu_check_cmd / _check_all_zhihu_feeds: a pass over feed configs.
\* Zhihu passes touch only `feeds` and Bilibili passes only `up_masters`, so one
\* behaviour holds passes of one kind.
StartZhihuPass(configs) ==
    /\ pass.status # "running"
    /\ pass.kind \in {"none", "zhihu"}
    /\ now <= MaxChecks
    /\ pass' = [status |-> "running", kind |-> "zhihu", configs |-> configs,
                i |-> 1, reports |-> <<>>]
    /\ expect' = <<>>
    /\ UNCHANGED <<trackerVars, fails, checked>>

\* check_multiple_feeds: `if not config.enabled: continue`
ZhihuSkipDisabled ==
    /\ pass.status = "running" /\ pass.kind = "zhihu"
    /\ pass.i <= Len(pass.configs)
    /\ ~ pass.configs[pass.i].enabled
    /\ pass' = [pass EXCEPT !.i = @ + 1]
    /\ UNCHANGED <<trackerVars, expect, fails, checked>>

\* check_multiple_feeds: one iteration, report = check_feed(config, state)
ZhihuCheckFeed(fetched) ==
    /\ pass.status = "running" /\ pass.kind = "zhihu"
    /\ pass.i <= Len(pass.configs)
    /\ pass.configs[pass.i].enabled
    /\ now <= MaxChecks
    /\ LET config == pass.configs[pass.i]
           f == config.feed_url
           check_time == now + 1
           r == check_feed(feeds[f], config, check_time, fetched)
       IN  /\ now' = check_time
           /\ feeds' = [feeds EXCEPT ![f] = r.fs]
           /\ pass' = [pass EXCEPT !.i = @ + 1, !.reports = Append(@, r.report)]
           /\ expect' = Append(expect,
                  LET batchIds == IF fetched.outcome = "entries"
                                  THEN {get_id(fetched.entries[k]) :
                                           k \in 1..Len(fetched.entries)}
                                  ELSE {}
                      newIds == batchIds \ Range(feeds[f].processed_items)
                  IN  [src |-> f, failed |-> ZhihuFailed(fetched),
                       batchIds |-> batchIds, newIds |-> newIds,
                       evicts |-> Len(feeds[f].processed_items) + Cardinality(newIds)
                                     > ProcessedCap,
                       before |-> Range(feeds[f].processed_items),
                       wellFormed |-> IF fetched.outcome = "entries"
                                      THEN WellFormedIds(FirstN(fetched.entries, max_items))
                                      ELSE {},
                       malformed |-> /\ fetched.outcome = "entries"
                                     /\ HasMalformed(FirstN(fetched.entries, max_items)),
                       otherFailure |-> fetched.outcome # "entries"])
           /\ fails' = [fails EXCEPT ![f] = IF ZhihuFailed(fetched) THEN @ + 1 ELSE 0]
           /\ checked' = [checked EXCEPT ![f] = check_time]
    /\ UNCHANGED <<up_masters, lastCall, feed_log, up_log, nOps>>

\* check_multiple_feeds: return reports
ZhihuReturn ==
    /\ pass.status = "running" /\ pass.kind = "zhihu"
    /\ pass.i > Len(pass.configs)
    /\ pass' = [pass EXCEPT !.status = "returned"]
    /\ UNCHANGED <<trackerVars, expect, fails, checked>>

MonitorReport(up_config, new_videos) ==
    [src |-> up_config.mid, new_videos |-> new_videos]

\* BilibiliMonitor.filter_new_videos
RECURSIVE filter_new_videos(_, _)
filter_new_videos(us, videos) ==
    IF videos = <<>> THEN <<>>
    ELSE LET video == Head(videos)
             rest == filter_new_videos(us, Tail(videos))
         IN  IF video.bvid # "" /\ is_video_new(us, video.bvid)
             THEN <<video>> \o rest ELSE rest

RECURSIVE bvids_of(_)
bvids_of(videos) ==
    IF videos = <<>> THEN <<>>
    ELSE IF Head(videos).bvid # "" THEN <<Head(videos).bvid>> \o bvids_of(Tail(videos))
         ELSE bvids_of(Tail(videos))

\* a variant of the except branch that appends no report for the failed check
on_check_exception_no_report(reports, up_config) == reports

\* check_multiple_up_masters, `except Exception:` appends an empty report
on_check_exception(reports, up_config) ==
    Append(reports, MonitorReport(up_config, <<>>))

\* BilibiliMonitor.check_up_master: [us, raised, new_videos] for each thing
\* fetch_up_master_videos can do (raise, return videos) and each outcome of
\* save_state (called by update_up_state when there are new videos)
check_up_master(us, t, fetched, save_ok) ==
    IF fetched.outcome = "raise"
    THEN [us |-> us, raised |-> TRUE, new_videos |-> <<>>]
    ELSE LET new_videos == filter_new_videos(us, fetched.videos)
         IN  IF new_videos # <<>>
             THEN [us |-> update_up_state(us, bvids_of(new_videos), t),
                   raised |-> ~ save_ok, new_videos |-> new_videos]
             ELSE [us |-> us, raised |-> FALSE, new_videos |-> new_videos]

BiliFetched ==
    {[outcome |-> "raise"]}
      \cup {[outcome |-> "videos", videos |-> b] : b \in SeqsUpTo2(Videos)}

\* main.py bili_monitor_cmd / _check_all_up_masters: a pass over UP master configs
StartBiliPass(configs) ==
    /\ pass.status # "running"
    /\ pass.kind \in {"none", "bilibili"}
    /\ now <= MaxChecks
    /\ pass' = [status |-> "running", kind |-> "bilibili", configs |-> configs,
                i |-> 1, reports |-> <<>>]
    /\ expect' = <<>>
    /\ UNCHANGED <<trackerVars, fails, checked>>

\* check_multiple_up_masters: one iteration
BiliCheckUpMaster(fetched, save_ok) ==
    /\ pass.status = "running" /\ pass.kind = "bilibili"
    /\ pass.i <= Len(pass.configs)
    /\ now <= MaxChecks
    /\ LET up_config == pass.configs[pass.i]
           m == up_config.mid
           check_time == now + 1
           r == check_up_master(up_masters[m], check_time, fetched, save_ok)
       IN  /\ now' = check_time
           /\ up_masters' = [up_masters EXCEPT ![m] = r.us]
           /\ pass' = [pass EXCEPT
                  !.i = @ + 1,
                  !.reports = IF r.raised
                              THEN on_check_exception(@, up_config)
                              ELSE Append(@, MonitorReport(up_config, r.new_videos))]
           /\ expect' = Append(expect,
                  LET batchIds == IF fetched.outcome = "videos"
                                  THEN {fetched.videos[k].bvid :
                                           k \in 1..Len(fetched.videos)} \ {""}
                                  ELSE {}
                  IN  [src |-> m, failed |-> r.raised,
                       batchIds |-> batchIds,
                       newIds |-> batchIds \ up_masters[m].processed_videos,
                       evicts |-> FALSE,
                       before |-> up_masters[m].processed_videos,
                       wellFormed |-> batchIds,
                       malformed |-> /\ fetched.outcome = "videos"
                                     /\ \E k \in 1..Len(fetched.videos) :
                                            fetched.videos[k].bvid = "",
                       otherFailure |-> fetched.outcome # "videos" \/ r.raised])
           /\ fails' = [fails EXCEPT ![m] = IF r.raised THEN @ + 1 ELSE 0]
           /\ checked' = [checked EXCEPT ![m] = check_time]
    /\ UNCHANGED <<feeds, lastCall, feed_log, up_log, nOps>>

\* check_multiple_up_masters: return reports
BiliReturn ==
    /\ pass.status = "running" /\ pass.kind = "bilibili"
    /\ pass.i > Len(pass.configs)
    /\ pass' = [pass EXCEPT !.status = "returned"]
    /\ UNCHANGED <<trackerVars, expect, fails, checked>>

PassNext ==
    \/ \E configs \in Seqs1To2(ZhihuConfigs) : StartZhihuPass(configs)
    \/ ZhihuSkipDisabled
    \/ \E fetched \in ZhihuFetched : ZhihuCheckFeed(fetched)
    \/ ZhihuReturn
    \/ \E configs \in Seqs1To2(UPMasterConfigs) : StartBiliPass(configs)
    \/ \E fetched \in BiliFetched, save_ok \in BOOLEAN : BiliCheckUpMaster(fetched, save_ok)
    \/ BiliReturn


----------------------------------------------------------------------------
(* The report aggregator: services/report_aggregator.py, models/report.py *)

\* max_items_per_category runs over 0..MaxPerCategory
MaxPerCategory == 2

\* times are hours; AggNow is what datetime.now() returns during aggregate_all
AggNow == 200

NoTime == [some |-> FALSE]
At(t) == [some |-> TRUE, t |-> t]

\* str.lower() on the words texts are made of
Lower(w) == IF w = "AI" THEN "ai" ELSE IF w = "VLOG" THEN "vlog" ELSE w

Categories == <<"technology", "entertainment", "education", "news", "lifestyle">>

\* ReportAggregator.category_keywords, two keywords of TECHNOLOGY and one of
\* every other category (biancheng: 编程, youxi: 游戏, jiaocheng: 教程, xinwen: 新闻)
category_keywords(category) ==
    CASE category = "technology" -> {"biancheng", "AI"}
      [] category = "entertainment" -> {"youxi"}
      [] category = "education" -> {"jiaocheng"}
      [] category = "news" -> {"xinwen"}
      [] category = "lifestyle" -> {"vlog"}

\* keyword in text, for a text that is a sequence of words
Contains(text, keyword) == \E i \in 1..Len(text) : text[i] = keyword

LowerText(text) == [i \in 1..Len(text) |-> Lower(text[i])]

KeywordScore(category, text) ==
    Cardinality({k \in category_keywords(category) : Contains(text, k)})

\* ReportAggregator._categorize_content: max() returns the first category of
\* the dictionary, in declaration order, that has the highest score
_categorize_content(title, summary) ==
    LET text == LowerText(title) \o LowerText(summary)
        scored == {i \in 1..Len(Categories) : KeywordScore(Categories[i], text) > 0}
    IN  IF scored = {} THEN "other"
        ELSE LET best == CHOOSE i \in scored :
                     \A j \in scored :
                        \/ KeywordScore(Categories[j], text) < KeywordScore(Categories[i], text)
                        \/ /\ KeywordScore(Categories[j], text) = KeywordScore(Categories[i], text)
                           /\ i <= j
             IN  Categories[best]

Min(a, b) == IF a <= b THEN a ELSE b

\* the score without the final min(1.0, score)
_calculate_importance_uncapped(published, has_summary, source, tnow) ==
    LET age_hours == tnow - published.t
        recency == IF ~ published.some THEN 0
                   ELSE IF age_hours < 24 THEN (300 * (24 - age_hours)) \div 24
                   ELSE IF age_hours < 72 THEN 100
                   ELSE 0
    IN  500 + recency + (IF has_summary THEN 100 ELSE 0)
            + (IF source = "bilibili" THEN 50 ELSE 0)

\* ReportAggregator._calculate_importance, in thousandths
_calculate_importance(published, has_summary, source, tnow) ==
    LET age_hours == tnow - published.t
        recency == IF ~ published.some THEN 0
                   ELSE IF age_hours < 24 THEN (300 * (24 - age_hours)) \div 24
                   ELSE IF age_hours < 72 THEN 100
                   ELSE 0
    IN  Min(1000, 500 + recency + (IF has_summary THEN 100 ELSE 0)
                      + (IF source = "bilibili" THEN 50 ELSE 0))

\* ZhihuFeedItem values the reports of the model carry
FeedItems ==
    { [title |-> <<"biancheng">>, link |-> "a", guid |-> "a", published |-> NoTime,
       summary |-> <<>>, bilibili_links |-> FALSE],
      [title |-> <<"biancheng">>, link |-> "b", guid |-> "b", published |-> At(188),
       summary |-> <<"jiaocheng", "biancheng">>, bilibili_links |-> FALSE],
      [title |-> <<"youxi">>, link |-> "c", guid |-> "c", published |-> At(152),
       summary |-> <<>>, bilibili_links |-> TRUE],
      [title |-> <<"biancheng">>, link |-> "d", guid |-> "d", published |-> At(100),
       summary |-> <<>>, bilibili_links |-> FALSE] }

ZhihuReports == {[feed_url |-> "f1", new_items |-> b] : b \in SeqsUpTo2(FeedItems)}

\* Bilibili MonitorReport values: without and with a new video
BiliReports ==
    { [up_master_mid |-> "m1", new_videos |-> <<>>],
      [up_master_mid |-> "m1", new_videos |-> <<[bvid |-> "a"]>>] }

\* collect_zhihu_content, the body of the loop for the n-th collected item:
\* the ContentItem of a feed item. Two readings of datetime.now() differ, so the
\* scores of two items published within 24 hours differ; now_read holds which
\* reading the score of such an item used.
zhihu_content_item(report, feed_item, tnow, n) ==
    LET importance == _calculate_importance(feed_item.published,
                                            feed_item.summary # <<>>, "zhihu", tnow)
    IN  [title |-> feed_item.title,
         url |-> feed_item.link,
         source |-> "zhihu",
         published |-> feed_item.published,
         summary |-> feed_item.summary,
         category |-> _categorize_content(feed_item.title, feed_item.summary),
         importance_score |-> IF feed_item.bilibili_links
                              THEN Min(1000, importance + 100) ELSE importance,
         feed_url |-> report.feed_url,
         bilibili_links |-> feed_item.bilibili_links,
         guid |-> feed_item.guid,
         now_read |-> IF feed_item.published.some /\ tnow - feed_item.published.t < 24
                      THEN n ELSE 0]

\* `if since and feed_item.published and feed_item.published < since: continue`
before_since(published, since) ==
    since.some /\ published.some /\ published.t < since.t

RECURSIVE collect_zhihu_items(_, _, _, _, _)
collect_zhihu_items(report, feed_items, since, tnow, items) ==
    IF feed_items = <<>> THEN items
    ELSE LET feed_item == Head(feed_items)
         IN  collect_zhihu_items(report, Tail(feed_items), since, tnow,
                 IF before_since(feed_item.published, since) THEN items
                 ELSE Append(items,
                         zhihu_content_item(report, feed_item, tnow, Len(items) + 1)))

\* ReportAggregator.collect_zhihu_content
RECURSIVE collect_zhihu_content(_, _, _, _)
collect_zhihu_content(reports, since, tnow, items) ==
    IF reports = <<>> THEN items
    ELSE collect_zhihu_content(Tail(reports), since, tnow,
             collect_zhihu_items(Head(reports), Head(reports).new_items,
                                 since, tnow, items))

\* ReportAggregator.collect_bilibili_content: the body of the inner loop reads
\* video.description, video.published, report.up_name and report.mid, which
\* VideoInfo (a slots dataclass) and MonitorReport do not have, so the first
\* video met raises AttributeError; without videos the result is empty
collect_bilibili_content(reports, since) ==
    [raised |-> \E i \in 1..Len(reports) : reports[i].new_videos # <<>>,
     items |-> <<>>]

\* list.sort(key=importance_score, reverse=True): stable, so equal scores keep
\* their order
RECURSIVE InsertByImportance(_, _)
InsertByImportance(sorted, item) ==
    IF sorted = <<>> THEN <<item>>
    ELSE IF Head(sorted).importance_score >= item.importance_score
         THEN <<Head(sorted)>> \o InsertByImportance(Tail(sorted), item)
         ELSE <<item>> \o sorted

RECURSIVE SortByImportance(_, _)
SortByImportance(items, sorted) ==
    IF items = <<>> THEN sorted
    ELSE SortByImportance(Tail(items), InsertByImportance(sorted, Head(items)))

AllCategories == {Categories[i] : i \in 1..Len(Categories)} \cup {"other"}

\* aggregate_all, the grouping loop: category_items after the items were met.
\* A category the loop never met maps to <<>>, as category_items.get(c, [])
RECURSIVE group_by_category(_, _, _)
group_by_category(items, max_items_per_category, category_items) ==
    IF items = <<>> THEN category_items
    ELSE LET item == Head(items)
             kept == category_items[item.category]
         IN  group_by_category(Tail(items), max_items_per_category,
                 IF Len(kept) < max_items_per_category
                 THEN [category_items EXCEPT ![item.category] = Append(kept, item)]
                 ELSE category_items)

\* `item in list` compares dataclass instances field by field
InList(item, list) == \E i \in 1..Len(list) : list[i] = item

DailyReport ==
    [sections |-> <<>>, total_items |-> 0, bilibili_items |-> 0, zhihu_items |-> 0]

CategorySection(category) == [category |-> category, items |-> <<>>]

\* DailyReport.get_section: the index of the section of a category, 0 for None
get_section(report, category) ==
    IF \E i \in 1..Len(report.sections) : report.sections[i].category = category
    THEN CHOOSE i \in 1..Len(report.sections) :
             /\ report.sections[i].category = category
             /\ \A j \in 1..(i - 1) : report.sections[j].category # category
    ELSE 0

\* a variant of add_item that does not count the item
add_item_uncounted(report, item) ==
    LET found == get_section(report, item.category)
        sections == IF found = 0
                    THEN Append(report.sections, CategorySection(item.category))
                    ELSE report.sections
        at == IF found = 0 THEN Len(sections) ELSE found
    IN  [report EXCEPT !.sections = [sections EXCEPT ![at].items = Append(@, item)]]

\* DailyReport.add_item
add_item(report, item) ==
    LET found == get_section(report, item.category)
        sections == IF found = 0
                    THEN Append(report.sections, CategorySection(item.category))
                    ELSE report.sections
        at == IF found = 0 THEN Len(sections) ELSE found
    IN  [sections |-> [sections EXCEPT ![at].items = Append(@, item)],
         total_items |-> report.total_items + 1,
         bilibili_items |-> report.bilibili_items
                            + (IF item.source = "bilibili" THEN 1 ELSE 0),
         zhihu_items |-> report.zhihu_items
                         + (IF item.source = "zhihu" THEN 1 ELSE 0)]

\* aggregate_all, the last loop: `if item in category_items.get(...)`
RECURSIVE add_items(_, _, _)
add_items(items, category_items, report) ==
    IF items = <<>> THEN report
    ELSE add_items(Tail(items), category_items,
             IF InList(Head(items), category_items[Head(items).category])
             THEN add_item(report, Head(items)) ELSE report)

\* a variant of the importance filter that keeps every item
filter_importance_keep_all(items, min_importance) == items

\* `[item for item in all_items if item.importance_score >= min_importance]`
RECURSIVE filter_importance(_, _)
filter_importance(items, min_importance) ==
    IF items = <<>> THEN <<>>
    ELSE (IF Head(items).importance_score >= min_importance
          THEN <<Head(items)>> ELSE <<>>)
         \o filter_importance(Tail(items), min_importance)

\* ReportAggregator.aggregate_all
aggregate_all(bilibili_reports, zhihu_reports, since, min_importance, max_per_category, tnow) ==
    LET bilibili == collect_bilibili_content(bilibili_reports, since)
        collected == bilibili.items \o collect_zhihu_content(zhihu_reports, since, tnow, <<>>)
        all_items == SortByImportance(filter_importance(collected, min_importance), <<>>)
        category_items == group_by_category(all_items, max_per_category,
                                            [c \in AllCategories |-> <<>>])
    IN  IF bilibili.raised
        THEN [status |-> "raised", report |-> DailyReport]
        ELSE [status |-> "returned",
              report |-> add_items(all_items, category_items, DailyReport)]

AggPending == [status |-> "pending", report |-> DailyReport]

AggIdle ==
    /\ agg_in = [bilibili_reports |-> <<>>, zhihu_reports |-> <<>>, since |-> NoTime,
                 min_importance |-> 300, max_items_per_category |-> 0]
    /\ agg_out = AggPending

\* the arguments of a call: the importance bounds are 0.0, the default 0.3 and
\* 0.7; since is None or 72 hours before now
AggInputs ==
    /\ agg_in \in [bilibili_reports : {<<>>} \cup {<<r>> : r \in BiliReports},
                   zhihu_reports : SeqsUpTo2(ZhihuReports),
                   since : {NoTime, At(AggNow - 72)},
                   min_importance : {0, 300, 700},
                   max_items_per_category : 0..MaxPerCategory]
    /\ agg_out = AggPending

AggregateAll ==
    /\ agg_out.status = "pending"
    /\ agg_out' = aggregate_all(agg_in.bilibili_reports, agg_in.zhihu_reports,
                                agg_in.since, agg_in.min_importance,
                                agg_in.max_items_per_category, AggNow)
    /\ UNCHANGED agg_in

----------------------------------------------------------------------------
(* The archive store: services/archive_service.py *)

\* times are hours; ArchNow is what datetime.now() returns in cleanup_old_archives
ArchNow == 72

\* the DailyReport values given to archive_report, report_date and content:
\* two times of one day, and two reports of one time of the next day
ArchReports ==
    { [report_date |-> 24, total_items |-> 1], [report_date |-> 36, total_items |-> 2],
      [report_date |-> 48, total_items |-> 1], [report_date |-> 48, total_items |-> 2] }

\* report_date.strftime("%Y%m%d"): the day of a time
archive_id_of(report_date) == report_date \div 24

ArchiveIds == {archive_id_of(r.report_date) : r \in ArchReports}

\* how writing a file ends: written, open() raised (the file is as before),
\* or json.dump raised after open() truncated the file
WriteOutcomes == {"ok", "open_fails", "dump_fails"}

NoFile == [kind |-> "absent"]
PartialFile == [kind |-> "partial"]
ReportFile(report) == [kind |-> "report", report |-> report]

NoIndexFile == [kind |-> "absent", archives |-> <<>>]
CorruptIndexFile == [kind |-> "corrupt", archives |-> <<>>]

ArchiveMetadata(report) ==
    [archive_id |-> archive_id_of(report.report_date),
     report_date |-> report.report_date,
     total_items |-> report.total_items]

\* ArchiveManager._load_index
_load_index(file) == IF file.kind = "ok" THEN file.archives ELSE <<>>

\* ArchiveManager._save_index: what the index file holds afterwards; an
\* exception is logged and swallowed
_save_index(archives, file, outcome) ==
    CASE outcome = "ok" -> [kind |-> "ok", archives |-> archives]
      [] outcome = "open_fails" -> file
      [] outcome = "dump_fails" -> CorruptIndexFile

\* ArchiveManager.get_archive: the position of the first entry of the id, 0 for None
get_archive(archives, archive_id) ==
    IF \E i \in 1..Len(archives) : archives[i].archive_id = archive_id
    THEN CHOOSE i \in 1..Len(archives) :
             /\ archives[i].archive_id = archive_id
             /\ \A j \in 1..(i - 1) : archives[j].archive_id # archive_id
    ELSE 0

Returned(metadata) == [some |-> TRUE, metadata |-> metadata]
ReturnedNone == [some |-> FALSE]

\* a variant of archive_report without the check for an existing archive
archive_report_overwrite(st, report, payload_write, index_write) ==
    LET archive_id == archive_id_of(report.report_date)
        metadata == ArchiveMetadata(report)
        archives == Append(st.index, metadata)
    IN  IF payload_write = "open_fails"
        THEN [st EXCEPT !.returned = ReturnedNone]
        ELSE IF payload_write = "dump_fails"
        THEN [st EXCEPT !.files[archive_id] = PartialFile, !.returned = ReturnedNone]
        ELSE [index |-> archives,
              files |-> [st.files EXCEPT ![archive_id] = ReportFile(report)],
              index_file |-> _save_index(archives, st.index_file, index_write),
              returned |-> Returned(metadata)]

\* ArchiveManager.archive_report
archive_report(st, report, payload_write, index_write) ==
    LET archive_id == archive_id_of(report.report_date)
        existing == get_archive(st.index, archive_id)
        metadata == ArchiveMetadata(report)
        archives == Append(st.index, metadata)
    IN  IF existing # 0
        THEN [st EXCEPT !.returned = Returned(st.index[existing])]
        ELSE IF payload_write = "open_fails"
        THEN [st EXCEPT !.returned = ReturnedNone]
        ELSE IF payload_write = "dump_fails"
        THEN [st EXCEPT !.files[archive_id] = PartialFile, !.returned = ReturnedNone]
        ELSE [index |-> archives,
              files |-> [st.files EXCEPT ![archive_id] = ReportFile(report)],
              index_file |-> _save_index(archives, st.index_file, index_write),
              returned |-> Returned(metadata)]

\* `[a for a in self.index.archives if a.archive_id != archive_id]`
RECURSIVE without_id(_, _)
without_id(archives, archive_id) ==
    IF archives = <<>> THEN <<>>
    ELSE (IF Head(archives).archive_id # archive_id THEN <<Head(archives)>> ELSE <<>>)
         \o without_id(Tail(archives), archive_id)

\* ArchiveManager.delete_archive; returned is the boolean it returns
delete_archive(st, archive_id, unlink_ok, index_write) ==
    LET archives == without_id(st.index, archive_id)
    IN  IF get_archive(st.index, archive_id) = 0
        THEN [st EXCEPT !.returned = FALSE]
        ELSE IF st.files[archive_id].kind # "absent" /\ ~ unlink_ok
        THEN [st EXCEPT !.returned = FALSE]
        ELSE [index |-> archives,
              files |-> [st.files EXCEPT ![archive_id] = NoFile],
              index_file |-> _save_index(archives, st.index_file, index_write),
              returned |-> TRUE]

\* ArchiveManager.cleanup_old_archives, the loop over list(self.index.archives):
\* st.deleted collects the ids whose delete_archive returned True. unlink_ok
\* says per payload file whether unlink works; the writes of the index file
\* during one cleanup all end as index_write says
RECURSIVE cleanup_loop(_, _, _, _, _)
cleanup_loop(st, todo, cutoff, unlink_ok, index_write) ==
    IF todo = <<>> THEN st
    ELSE LET archive == Head(todo)
             after == delete_archive([index |-> st.index, files |-> st.files,
                                      index_file |-> st.index_file, returned |-> FALSE],
                                     archive.archive_id, unlink_ok[archive.archive_id],
                                     index_write)
         IN  cleanup_loop(
                 IF archive.report_date < cutoff
                 THEN [index |-> after.index, files |-> after.files,
                       index_file |-> after.index_file,
                       deleted |-> IF after.returned
                                   THEN st.deleted \cup {archive.archive_id}
                                   ELSE st.deleted]
                 ELSE st,
                 Tail(todo), cutoff, unlink_ok, index_write)

\* ArchiveManager.cleanup_old_archives
cleanup_old_archives(st, days, tnow, unlink_ok, index_write) ==
    cleanup_loop([index |-> st.index, files |-> st.files,
                  index_file |-> st.index_file, deleted |-> {}],
                 st.index, tnow - 24 * days, unlink_ok, index_write)

NoFirst == [some |-> FALSE]

ArchState == [index |-> index, files |-> files, index_file |-> index_file,
              returned |-> FALSE]

\* whether the payload file, the index in memory and the index file hold an id
PayloadPresent(fs, archive_id) == fs[archive_id].kind # "absent"
InMemory(archives, archive_id) == get_archive(archives, archive_id) # 0
InPersisted(file, archive_id) == get_archive(_load_index(file), archive_id) # 0

\* ArchiveManager.__init__ on an empty archive directory
ArchiveIdle ==
    /\ index = <<>>
    /\ index_file = NoIndexFile
    /\ files = [a \in ArchiveIds |-> NoFile]
    /\ arch_last = [op |-> "none"]
    /\ first = [a \in ArchiveIds |-> NoFirst]

ArchiveReport(report, payload_write, index_write) ==
    LET archive_id == archive_id_of(report.report_date)
        existing == get_archive(index, archive_id)
        after == archive_report(ArchState, report, payload_write, index_write)
    IN  /\ index' = after.index
        /\ files' = after.files
        /\ index_file' = after.index_file
        /\ arch_last' = [op |-> "archive", archive_id |-> archive_id, report |-> report,
                         existing |-> existing # 0, returned |-> after.returned]
        /\ first' = IF existing = 0 /\ after.returned.some
                    THEN [first EXCEPT ![archive_id] =
                             [some |-> TRUE, metadata |-> after.returned.metadata,
                              payload |-> ReportFile(report)]]
                    ELSE first

DeleteArchive(archive_id, unlink_ok, index_write) ==
    LET after == delete_archive(ArchState, archive_id, unlink_ok, index_write)
    IN  /\ index' = after.index
        /\ files' = after.files
        /\ index_file' = after.index_file
        /\ arch_last' = [op |-> "delete", archive_id |-> archive_id,
                         found |-> InMemory(index, archive_id),
                         payload_before |-> PayloadPresent(files, archive_id),
                         persisted_before |-> InPersisted(index_file, archive_id),
                         returned |-> after.returned]
        /\ first' = IF after.returned THEN [first EXCEPT ![archive_id] = NoFirst]
                    ELSE first

CleanupOldArchives(days, unlink_ok, index_write) ==
    LET after == cleanup_old_archives(ArchState, days, ArchNow, unlink_ok, index_write)
    IN  /\ index' = after.index
        /\ files' = after.files
        /\ index_file' = after.index_file
        /\ arch_last' = [op |-> "cleanup", returned |-> Cardinality(after.deleted)]
        /\ first' = [a \in ArchiveIds |-> IF a \in after.deleted THEN NoFirst ELSE first[a]]

\* the plugin is loaded again: ArchiveManager.__init__ reads the index file
ArchiveRestart ==
    /\ index' = _load_index(index_file)
    /\ arch_last' = [op |-> "init"]
    /\ first' = [a \in ArchiveIds |->
                     LET loaded == _load_index(index_file)
                     IN  IF get_archive(loaded, a) = 0 THEN NoFirst
                         ELSE [some |-> TRUE, metadata |-> loaded[get_archive(loaded, a)],
                               payload |-> files[a]]]
    /\ UNCHANGED <<files, index_file>>

ArchiveNext ==
    \/ \E report \in ArchReports, payload_write \in WriteOutcomes,
          index_write \in WriteOutcomes :
           ArchiveReport(report, payload_write, index_write)
    \/ \E archive_id \in ArchiveIds, unlink_ok \in BOOLEAN, index_write \in WriteOutcomes :
           DeleteArchive(archive_id, unlink_ok, index_write)
    \/ \E days \in 0..2, unlink_ok \in [ArchiveIds -> BOOLEAN],
          index_write \in WriteOutcomes :
           CleanupOldArchives(days, unlink_ok, index_write)
    \/ ArchiveRestart

----------------------------------------------------------------------------
(* The search engine: services/content_search.py *)

\* the index holds at most MaxIndex items
MaxIndex == 2

NoBound == [some |-> FALSE]
Bound(x) == [some |-> TRUE, x |-> x]

\* the ContentItem values that are indexed; texts are sequences of words, an
\* empty summary or author stands for None, importance is in thousandths
Corpus ==
    { [title |-> <<"ai", "ai">>, summary |-> <<>>, author |-> <<"bob">>,
       category |-> "technology", source |-> "zhihu", importance_score |-> 0,
       published |-> NoTime],
      [title |-> <<"AI">>, summary |-> <<"game">>, author |-> <<>>,
       category |-> "entertainment", source |-> "bilibili", importance_score |-> 600,
       published |-> At(100)],
      [title |-> <<"news">>, summary |-> <<"ai">>, author |-> <<"ai">>,
       category |-> "technology", source |-> "bilibili", importance_score |-> 900,
       published |-> At(160)],
      [title |-> <<"game">>, summary |-> <<>>, author |-> <<>>,
       category |-> "other", source |-> "zhihu", importance_score |-> 600,
       published |-> At(90)] }

\* SearchQuery with its defaults
SearchQuery ==
    [keywords |-> <<>>, search_in |-> {"title", "summary"}, case_sensitive |-> FALSE,
     categories |-> {}, sources |-> {}, min_importance |-> NoBound,
     max_importance |-> NoBound, start_date |-> NoTime, end_date |-> NoTime,
     sort_by |-> "relevance", sort_order |-> "desc", limit |-> 20, offset |-> 0]

\* the queries of the model: one family varies the filters, the other the
\* keywords, the order and the page
FilterQueries ==
    { [SearchQuery EXCEPT !.keywords = k, !.categories = c, !.sources = src,
                          !.min_importance = lo, !.max_importance = hi,
                          !.start_date = sd, !.end_date = ed] :
        k \in {<<>>, <<"ai">>},
        c \in {{}, {"technology"}},
        src \in {{}, {"zhihu"}},
        lo \in {NoBound, Bound(0), Bound(600)},
        hi \in {NoBound, Bound(0), Bound(600)},
        sd \in {NoTime, At(100)},
        ed \in {NoTime, At(150)} }

KeywordQueries ==
    { [SearchQuery EXCEPT !.keywords = k, !.search_in = f, !.case_sensitive = cs,
                          !.sort_by = sb, !.sort_order = so,
                          !.limit = page[1], !.offset = page[2]] :
        k \in {<<>>, <<"ai">>, <<"AI", "game">>, <<"zhihu">>},
        f \in {{"title", "summary"}, {"title", "summary", "author"}, {"author"}},
        cs \in BOOLEAN,
        sb \in {"relevance", "importance", "date"},
        so \in {"asc", "desc"},
        page \in {<<20, 0>>, <<1, 0>>, <<1, 1>>} }

Queries == FilterQueries \cup KeywordQueries

\* text.count(keyword) for a text that is a sequence of words
Count(text, keyword) == Cardinality({i \in 1..Len(text) : text[i] = keyword})

FieldNames == <<"title", "summary", "author">>

FieldText(item, field_name) ==
    CASE field_name = "title" -> item.title
      [] field_name = "summary" -> item.summary
      [] field_name = "author" -> item.author

\* _calculate_relevance, the search_texts dictionary: the fields searched, in
\* the order they are inserted
search_texts(item, search_in) ==
    SelectSeq(FieldNames, LAMBDA f : f \in search_in /\ FieldText(item, f) # <<>>)

\* twice the field_weight: title 3.0, summary 1.5, author 1.0
field_weight2(field_name) ==
    CASE field_name = "title" -> 6
      [] field_name = "summary" -> 3
      [] field_name = "author" -> 2

\* four times what one keyword adds to field_score:
\* field_weight * (1.0 + 0.5 * min(count - 1, 3)), 0 when count is 0
RECURSIVE field_score4(_, _, _)
field_score4(field_name, text, keywords) ==
    IF keywords = <<>> THEN 0
    ELSE LET count == Count(text, Head(keywords))
         IN  (IF count > 0
              THEN field_weight2(field_name) * (2 + Min(count - 1, 3)) ELSE 0)
             + field_score4(field_name, text, Tail(keywords))

RECURSIVE fields_score4(_, _, _, _)
fields_score4(item, fields, keywords, case_sensitive) ==
    IF fields = <<>> THEN 0
    ELSE LET text == IF case_sensitive THEN FieldText(item, Head(fields))
                     ELSE LowerText(FieldText(item, Head(fields)))
         IN  field_score4(Head(fields), text, keywords)
             + fields_score4(item, Tail(fields), keywords, case_sensitive)

\* the denominator of the relevance scores of a query: a relevance_score r of
\* the model stands for r / RelevanceUnit(keywords)
RelevanceUnit(keywords) == IF keywords = <<>> THEN 12 ELSE 12 * Len(keywords)

\* ContentSearchEngine._calculate_relevance
_calculate_relevance(item, keywords, search_in, case_sensitive) ==
    LET search_keywords == IF case_sensitive THEN keywords ELSE LowerText(keywords)
        fields == search_texts(item, search_in)
    IN  IF keywords = <<>>
        THEN [relevance |-> RelevanceUnit(keywords), matched_fields |-> <<>>]
        ELSE [relevance |-> Min(RelevanceUnit(keywords),
                                fields_score4(item, fields, search_keywords,
                                              case_sensitive)),
              matched_fields |->
                  SelectSeq(fields, LAMBDA f :
                      field_score4(f, IF case_sensitive THEN FieldText(item, f)
                                      ELSE LowerText(FieldText(item, f)),
                                   search_keywords) > 0)]

\* a variant of _matches_filters that tests the importance bounds for truth,
\* so that a bound of 0.0 is no bound
_matches_filters_truthy(item, query) ==
    /\ query.categories # {} => item.category \in query.categories
    /\ query.sources # {} => item.source \in query.sources
    /\ (query.min_importance.some /\ query.min_importance.x # 0)
           => item.importance_score >= query.min_importance.x
    /\ (query.max_importance.some /\ query.max_importance.x # 0)
           => item.importance_score <= query.max_importance.x
    /\ item.published.some =>
           /\ query.start_date.some => item.published.t >= query.start_date.t
           /\ query.end_date.some => item.published.t <= query.end_date.t

\* a variant of _matches_filters that rejects an item without a published time
\* when a date bound is set
_matches_filters_dated_only(item, query) ==
    /\ query.categories # {} => item.category \in query.categories
    /\ query.sources # {} => item.source \in query.sources
    /\ query.min_importance.some => item.importance_score >= query.min_importance.x
    /\ query.max_importance.some => item.importance_score <= query.max_importance.x
    /\ query.start_date.some =>
           item.published.some /\ item.published.t >= query.start_date.t
    /\ query.end_date.some =>
           item.published.some /\ item.published.t <= query.end_date.t

\* ContentSearchEngine._matches_filters
_matches_filters(item, query) ==
    IF query.categories # {} /\ item.category \notin query.categories THEN FALSE
    ELSE IF query.sources # {} /\ item.source \notin query.sources THEN FALSE
    ELSE IF query.min_importance.some
            /\ item.importance_score < query.min_importance.x THEN FALSE
    ELSE IF query.max_importance.some
            /\ item.importance_score > query.max_importance.x THEN FALSE
    ELSE IF item.published.some /\ query.start_date.some
            /\ item.published.t < query.start_date.t THEN FALSE
    ELSE IF item.published.some /\ query.end_date.some
            /\ item.published.t > query.end_date.t THEN FALSE
    ELSE TRUE

SearchResult(item, scored) ==
    [item |-> item, relevance_score |-> scored.relevance,
     matched_fields |-> scored.matched_fields]

\* a variant of the loop of search that keeps the items of relevance 0
RECURSIVE filter_and_score_keep_zero(_, _)
filter_and_score_keep_zero(items, query) ==
    IF items = <<>> THEN <<>>
    ELSE LET item == Head(items)
             scored == _calculate_relevance(item, query.keywords, query.search_in,
                                            query.case_sensitive)
         IN  (IF ~ _matches_filters(item, query) THEN <<>>
              ELSE <<SearchResult(item, scored)>>)
             \o filter_and_score_keep_zero(Tail(items), query)

\* search, the loop over content_index
RECURSIVE filter_and_score(_, _)
filter_and_score(items, query) ==
    IF items = <<>> THEN <<>>
    ELSE LET item == Head(items)
             scored == _calculate_relevance(item, query.keywords, query.search_in,
                                            query.case_sensitive)
         IN  (IF ~ _matches_filters(item, query) THEN <<>>
              ELSE IF query.keywords # <<>> /\ scored.relevance = 0 THEN <<>>
              ELSE <<SearchResult(item, scored)>>)
             \o filter_and_score(Tail(items), query)

\* a variant of the sort key that puts an item without a published time above
\* every time
SortKey_undated_max(result, sort_by) ==
    CASE sort_by = "relevance" -> result.relevance_score
      [] sort_by = "importance" -> result.item.importance_score
      [] sort_by = "date" -> IF result.item.published.some
                             THEN result.item.published.t ELSE 1000000

\* the key results are sorted by; datetime.min is below every time
SortKey(result, sort_by) ==
    CASE sort_by = "relevance" -> result.relevance_score
      [] sort_by = "importance" -> result.item.importance_score
      [] sort_by = "date" -> IF result.item.published.some
                             THEN result.item.published.t ELSE -1

\* list.sort(key, reverse): stable in both directions
RECURSIVE InsertResult(_, _, _, _)
InsertResult(sorted, result, sort_by, reverse) ==
    IF sorted = <<>> THEN <<result>>
    ELSE IF (IF reverse
             THEN SortKey(Head(sorted), sort_by) >= SortKey(result, sort_by)
             ELSE SortKey(Head(sorted), sort_by) <= SortKey(result, sort_by))
         THEN <<Head(sorted)>> \o InsertResult(Tail(sorted), result, sort_by, reverse)
         ELSE <<result>> \o sorted

RECURSIVE SortResults(_, _, _, _)
SortResults(results, sorted, sort_by, reverse) ==
    IF results = <<>> THEN sorted
    ELSE SortResults(Tail(results),
                     InsertResult(sorted, Head(results), sort_by, reverse),
                     sort_by, reverse)

\* results[start:end] for 0 <= start <= end
Slice(results, start, end) == SubSeq(results, start + 1, Min(end, Len(results)))

\* ContentSearchEngine.search
search(items, query) ==
    LET results == SortResults(filter_and_score(items, query), <<>>,
                               query.sort_by, query.sort_order = "desc")
    IN  Slice(results, query.offset, query.offset + query.limit)

NoSearch == [done |-> FALSE, query |-> SearchQuery, results |-> <<>>]

SearchIdle ==
    /\ content_index = <<>>
    /\ search_out = NoSearch

\* ContentSearchEngine.index_content
IndexContent(items) ==
    /\ ~ search_out.done
    /\ Len(content_index) + Len(items) <= MaxIndex
    /\ content_index' = content_index \o items
    /\ UNCHANGED search_out

\* ContentSearchEngine.clear_index
ClearIndex ==
    /\ ~ search_out.done
    /\ content_index' = <<>>
    /\ UNCHANGED search_out

\* a call of search up to its return statement
Search(query) ==
    /\ ~ search_out.done
    /\ search_out' = [done |-> TRUE, query |-> query,
                      results |-> search(content_index, query)]
    /\ UNCHANGED content_index

\* the caller takes the results
SearchReturn ==
    /\ search_out.done
    /\ search_out' = NoSearch
    /\ UNCHANGED content_index

SearchNext ==
    \/ \E items \in Seqs1To2(Corpus) : IndexContent(items)
    \/ ClearIndex
    \/ \E query \in Queries : Search(query)
    \/ SearchReturn

----------------------------------------------------------------------------
(* The /search and /filter commands of the plugin (src/main.py).  The plugin
   holds one ContentSearchEngine for its whole life (main.py:102) and fills
   its index from the Bilibili content history inside each command. *)

\* MonitorState.cleanup_old_history keeps the last max_items entries
\* (main.py:540 passes 1000)
HistoryCap == 2

\* the longest index the commands are followed to
MaxCmdIndex == 4

\* the videos of the reports handed to _save_bilibili_to_history: title, desc,
\* the name of the UP master, and the publish time (None when publish_time is 0)
HistoryVideos ==
    { [title |-> <<"ai">>, desc |-> <<>>, up_master_name |-> <<"bob">>,
       publish_time |-> At(100)],
      [title |-> <<"game">>, desc |-> <<"ai">>, up_master_name |-> <<>>,
       publish_time |-> NoTime] }

\* datetime.isoformat() : the string that stands for the time t
isoformat(published) == [iso |-> published.t]

IsIsoString(published) == "iso" \in DOMAIN published

\* the ContentItem that _save_bilibili_to_history builds from a video
content_item_of(video) ==
    [title |-> video.title, summary |-> video.desc, author |-> video.up_master_name,
     category |-> "other", source |-> "bilibili", importance_score |-> 500,
     published |-> video.publish_time]

\* ContentItem.to_dict : the publish time becomes its ISO string when there is
\* one (the enum members are written here by their values already)
to_dict(item) ==
    [item EXCEPT !.published = IF item.published.some THEN isoformat(item.published)
                                                      ELSE item.published]

\* ContentItem.from_dict : a publish time that is a string is parsed; the
\* dictionary handed in is changed in place and the item is built from it
from_dict(data) ==
    [data EXCEPT !.published = IF IsIsoString(data.published) THEN At(data.published.iso)
                                                              ELSE data.published]

MapSeq(Op(_), s) == [k \in 1..Len(s) |-> Op(s[k])]

\* the attributes of ZhihuMonitorState (models/zhihu.py:105-109)
ZhihuMonitorStateFields == {"feeds"}

\* the try block shared by handle_search and handle_filter, from the load of
\* the Bilibili state to the reply: the Bilibili history is appended to the
\* index, then zhihu_state.content_history is read, which raises
\* AttributeError when ZhihuMonitorState has no such attribute; the except
\* clause replies with the failure and the query is not run
load_and_search(idx, history, query) ==
    LET bili_items == MapSeq(from_dict, history)
        indexed == IF history # <<>> THEN idx \o bili_items ELSE idx
    IN  IF "content_history" \notin ZhihuMonitorStateFields
        THEN [index |-> indexed, ran_query |-> FALSE, results |-> <<>>,
              total_items |-> Len(indexed)]
        ELSE [index |-> indexed, ran_query |-> TRUE,
              results |-> search(indexed, query), total_items |-> Len(indexed)]

\* handle_search : no clear_index before the history is indexed
handle_search(idx, history, query) == load_and_search(idx, history, query)

\* handle_filter : clear_index, then the same
handle_filter(idx, history, query) == load_and_search(<<>>, history, query)

\* the queries /search builds: keywords, default limit and sort
CmdSearchQueries ==
    { [SearchQuery EXCEPT !.keywords = <<"ai">>],
      [SearchQuery EXCEPT !.keywords = <<"game">>] }

\* the queries /filter builds: no keywords, sorted by date
CmdFilterQueries ==
    { [SearchQuery EXCEPT !.sort_by = "date"],
      [SearchQuery EXCEPT !.sort_by = "date", !.sources = {"bilibili"}] }

NoCommand ==
    [cmd |-> "none", query |-> SearchQuery, history |-> <<>>, index |-> <<>>,
     ran_query |-> FALSE, results |-> <<>>, total_items |-> 0]

CmdIdle ==
    /\ content_history = <<>>
    /\ cmd_last = NoCommand

\* _save_bilibili_to_history : one dictionary per new video is appended to the
\* history, which is then cut to its last HistoryCap entries
SaveBilibiliToHistory(videos) ==
    /\ content_history' =
           LastN(content_history \o MapSeq(to_dict, MapSeq(content_item_of, videos)),
                 HistoryCap)
    /\ UNCHANGED <<cmd_last, content_index, search_out>>

CommandRecord(cmd, query, out) ==
    [cmd |-> cmd, query |-> query, history |-> MapSeq(from_dict, content_history),
     index |-> out.index, ran_query |-> out.ran_query, results |-> out.results,
     total_items |-> out.total_items]

\* the /search command
HandleSearch(query) ==
    /\ Len(content_index) + Len(content_history) <= MaxCmdIndex
    /\ LET out == handle_search(content_index, content_history, query)
       IN  /\ content_index' = out.index
           /\ content_history' = MapSeq(from_dict, content_history)
           /\ cmd_last' = CommandRecord("search", query, out)
    /\ UNCHANGED search_out

\* the /filter command
HandleFilter(query) ==
    /\ LET out == handle_filter(content_index, content_history, query)
       IN  /\ content_index' = out.index
           /\ content_history' = MapSeq(from_dict, content_history)
           /\ cmd_last' = CommandRecord("filter", query, out)
    /\ UNCHANGED search_out

CmdNext ==
    \/ \E videos \in Seqs1To2(HistoryVideos) : SaveBilibiliToHistory(videos)
    \/ \E query \in CmdSearchQueries : HandleSearch(query)
    \/ \E query \in CmdFilterQueries : HandleFilter(query)

----------------------------------------------------------------------------
(* The state files: ZhihuStateManager (core/zhihu_state.py) and StateManager
   with MonitorState (core/state.py, models/bilibili.py).  The two managers
   share nothing, so one of them is followed at a time: store.which. *)

Managers == {"zhihu", "bilibili"}

StoreIds == {"a", "b"}

\* the identifiers a state holds: processed_items is a list (Zhihu),
\* processed_videos a set (Bilibili)
Perms(S) == {s \in [1..Cardinality(S) -> S] : Range(s) = S}

StateIds(which) ==
    IF which = "zhihu" THEN UNION {Perms(S) : S \in SUBSET StoreIds} ELSE SUBSET StoreIds

EmptyIds(which) == IF which = "zhihu" THEN <<>> ELSE {}

\* _state of a manager: not loaded yet, or a state object
NotLoaded(which) == [loaded |-> FALSE, ids |-> EmptyIds(which), well_typed |-> TRUE]

StateObject(ids) == [loaded |-> TRUE, ids |-> ids, well_typed |-> TRUE]

\* ZhihuMonitorState() / MonitorState()
EmptyState(which) == StateObject(EmptyIds(which))

\* a state object one of whose fields holds a value of the wrong type
WrongTypedState(which) == [loaded |-> TRUE, ids |-> EmptyIds(which), well_typed |-> FALSE]

\* what a path can hold: nothing, a file that cannot be opened, text that is
\* not JSON, the truncated text an unfinished json.dump leaves, or JSON text
FileOf(kind, shape, ids) == [kind |-> kind, shape |-> shape, ids |-> ids]

AbsentFile == FileOf("absent", "none", <<>>)
UnreadableFile == FileOf("unreadable", "none", <<>>)
NotJsonFile == FileOf("not_json", "none", <<>>)
TruncatedFile == FileOf("partial", "none", <<>>)

\* JSON text of a snapshot: the identifiers as a JSON array
SnapshotFile(ids) == FileOf("json", "snapshot", ids)

\* json.dump(state.to_dict()) : every text a complete dump of the state can
\* be (list(processed_videos) lists a set in an order of its own)
Dumps(which, st) ==
    IF which = "zhihu" THEN {SnapshotFile(st.ids)}
    ELSE {SnapshotFile(s) : s \in Perms(st.ids)}

\* valid JSON of another shape
ZhihuShapes ==
    {"top_list", "feeds_not_object", "feed_unknown_key", "feed_missing_url",
     "feed_bad_time", "feed_items_number"}

BilibiliShapes ==
    {"top_list", "up_masters_not_object", "up_bad_time", "up_unknown_key",
     "history_number"}

ShapesOf(which) == IF which = "zhihu" THEN ZhihuShapes ELSE BilibiliShapes

Returns(st) == [raised |-> "none", state |-> st]
Raises(which, exc) == [raised |-> exc, state |-> NotLoaded(which)]

\* ZhihuMonitorState.from_dict with ZhihuFeedState.from_dict on parsed JSON
ZhihuMonitorState_from_dict(file) ==
    CASE file.shape = "snapshot" -> Returns(StateObject(file.ids))
      [] file.shape = "top_list" -> Returns(EmptyState("zhihu"))
      [] file.shape = "feeds_not_object" -> Raises("zhihu", "AttributeError")
      [] file.shape = "feed_unknown_key" -> Raises("zhihu", "TypeError")
      [] file.shape = "feed_missing_url" -> Raises("zhihu", "TypeError")
      [] file.shape = "feed_bad_time" -> Raises("zhihu", "ValueError")
      [] file.shape = "feed_items_number" -> Returns(WrongTypedState("zhihu"))

\* the body of the try block of ZhihuStateManager._load_from_file
zhihu_open_and_parse(file) ==
    CASE file.kind = "unreadable" -> Raises("zhihu", "PermissionError")
      [] file.kind \in {"not_json", "partial"} -> Raises("zhihu", "JSONDecodeError")
      [] file.kind = "json" -> ZhihuMonitorState_from_dict(file)

\* except (json.JSONDecodeError, KeyError, ValueError)
ZhihuCaught == {"JSONDecodeError", "KeyError", "ValueError"}

\* ZhihuStateManager._load_from_file
_load_from_file(file) ==
    IF file.kind = "absent" THEN Returns(EmptyState("zhihu"))
    ELSE LET out == zhihu_open_and_parse(file)
         IN  IF out.raised \in ZhihuCaught THEN Returns(EmptyState("zhihu")) ELSE out

\* the body of the try block of MonitorState.load_from_file
bilibili_open_and_parse(file) ==
    CASE file.kind = "unreadable" -> Raises("bilibili", "PermissionError")
      [] file.kind \in {"not_json", "partial"} -> Raises("bilibili", "JSONDecodeError")
      [] file.shape = "snapshot" -> Returns(StateObject(Range(file.ids)))
      [] file.shape = "top_list" -> Raises("bilibili", "AttributeError")
      [] file.shape = "up_masters_not_object" -> Raises("bilibili", "AttributeError")
      [] file.shape = "up_bad_time" -> Raises("bilibili", "ValueError")
      [] file.shape = "up_unknown_key" -> Returns(StateObject(Range(file.ids)))
      [] file.shape = "history_number" -> Returns(WrongTypedState("bilibili"))

\* MonitorState.load_from_file : except Exception
load_from_file(file) ==
    IF file.kind = "absent" THEN Returns(EmptyState("bilibili"))
    ELSE LET out == bilibili_open_and_parse(file)
         IN  IF out.raised # "none" THEN Returns(EmptyState("bilibili")) ELSE out

load_file(which, file) ==
    IF which = "zhihu" THEN _load_from_file(file) ELSE load_from_file(file)

\* where a save can stop: it completes, mkdir raises, open raises, json.dump
\* raises part way, the rename raises, or the process ends during json.dump
SaveOutcomes == {"ok", "mkdir_fails", "open_fails", "dump_fails", "replace_fails", "killed"}

\* ZhihuStateManager._save_to_file : the files after the call.  The dump goes
\* to the temporary path, which replaces the state file when it is complete;
\* the except clause unlinks the temporary file
_save_to_file(file, tmp, dumped, outcome) ==
    CASE outcome = "ok" -> [file |-> dumped, tmp |-> AbsentFile, raised |-> FALSE]
      [] outcome = "mkdir_fails" -> [file |-> file, tmp |-> tmp, raised |-> TRUE]
      [] outcome = "killed" -> [file |-> file, tmp |-> TruncatedFile, raised |-> FALSE]
      [] OTHER -> [file |-> file, tmp |-> AbsentFile, raised |-> TRUE]

\* MonitorState.save_to_file : open(file_path, 'w') empties the state file
\* itself and json.dump writes into it
save_to_file(file, tmp, dumped, outcome) ==
    CASE outcome = "ok" -> [file |-> dumped, tmp |-> tmp, raised |-> FALSE]
      [] outcome \in {"mkdir_fails", "open_fails"} -> [file |-> file, tmp |-> tmp, raised |-> TRUE]
      [] outcome = "dump_fails" -> [file |-> TruncatedFile, tmp |-> tmp, raised |-> TRUE]
      [] outcome = "killed" -> [file |-> TruncatedFile, tmp |-> tmp, raised |-> FALSE]

SaveOutcomesOf(which) ==
    IF which = "zhihu" THEN SaveOutcomes ELSE SaveOutcomes \ {"replace_fails"}

save_file(which, file, tmp, dumped, outcome) ==
    IF which = "zhihu" THEN _save_to_file(file, tmp, dumped, outcome)
    ELSE save_to_file(file, tmp, dumped, outcome)

NoIo(which) ==
    [op |-> "none", outcome |-> "none", before |-> AbsentFile, after |-> AbsentFile,
     dumps |-> {}, raised |-> "none", state |-> NotLoaded(which)]

StoreStart(which) ==
    /\ store = [which |-> which, file |-> AbsentFile, tmp |-> AbsentFile,
                mem |-> NotLoaded(which)]
    /\ io_last = NoIo(which)

StoreIdle == StoreStart("zhihu")

StoreManagers == \E which \in Managers : StoreStart(which)

\* load_state : the file is read when no state is held yet
LoadState ==
    /\ ~ store.mem.loaded
    /\ LET out == load_file(store.which, store.file)
       IN  /\ store' = [store EXCEPT !.mem = out.state]
           /\ io_last' = [op |-> "load", outcome |-> "none", before |-> store.file,
                          after |-> store.file, dumps |-> {}, raised |-> out.raised,
                          state |-> out.state]

\* update_feed_state / update_up_state : the state held changes
StoreUpdate(ids) ==
    /\ store.mem.loaded
    /\ store.mem.ids # ids
    /\ store' = [store EXCEPT !.mem = StateObject(ids)]
    /\ UNCHANGED io_last

\* save_state : the state held is written to the state file
SaveState(outcome) ==
    /\ store.mem.loaded
    /\ store.mem.well_typed
    /\ \E dumped \in Dumps(store.which, store.mem) :
          LET out == save_file(store.which, store.file, store.tmp, dumped, outcome)
          IN  /\ store' = [store EXCEPT !.file = out.file, !.tmp = out.tmp,
                                        !.mem = IF outcome = "killed"
                                                THEN NotLoaded(store.which) ELSE @]
              /\ io_last' = [op |-> "save", outcome |-> outcome, before |-> store.file,
                             after |-> out.file, dumps |-> Dumps(store.which, store.mem),
                             raised |-> IF out.raised THEN "raised" ELSE "none",
                             state |-> store.mem]

\* the plugin is started again: the state held is gone, the files stay
StoreRestart ==
    /\ store.mem.loaded
    /\ store' = [store EXCEPT !.mem = NotLoaded(store.which)]
    /\ UNCHANGED io_last

\* the state file as the plugin can find it at start: unreadable, not JSON,
\* or JSON of another shape
FoundFiles(which) ==
    {UnreadableFile, NotJsonFile}
      \cup {FileOf("json", shape, <<"a">>) : shape \in ShapesOf(which)}

FindFile(file) ==
    /\ ~ store.mem.loaded
    /\ io_last.op # "load"
    /\ store.file # file
    /\ store' = [store EXCEPT !.file = file]
    /\ UNCHANGED io_last

StoreNext ==
    \/ LoadState
    \/ \E ids \in StateIds(store.which) : StoreUpdate(ids)
    \/ \E outcome \in SaveOutcomesOf(store.which) : SaveState(outcome)
    \/ StoreRestart
    \/ \E file \in FoundFiles(store.which) : FindFile(file)

----------------------------------------------------------------------------
(* core/scheduler.py: one execution of a scheduled task,
   SchedulerManager._execute_task_with_retry *)

\* TaskConfig.max_retries goes up to MaxRetries (the plugin uses 3 and 2)
MaxRetries == 2

\* executions of the task followed; bounds TaskStatus.total_runs
MaxRuns == 2

\* TaskConfig.retry_delay_seconds (60 by default)
RetryDelays == {1, 60}

\* the Error-handling fields of TaskConfig
RetryConfigs ==
    [max_retries : 0..MaxRetries, retry_delay_seconds : RetryDelays,
     exponential_backoff : BOOLEAN]

\* TaskConfig.func : a function that returns or raises as it likes, or the
\* Bilibili monitoring pass SASTPlugin._check_all_up_masters
TaskFuncs == {"generic", "_check_all_up_masters"}

RECURSIVE Pow2(_)
Pow2(n) == IF n = 0 THEN 1 ELSE 2 * Pow2(n - 1)

\* the delay that ignores exponential_backoff
backoff_delay_fixed(config, retry_count) == config.retry_delay_seconds

\* the delay before the retry that follows the retry_count-th failure
backoff_delay(config, retry_count) ==
    IF config.exponential_backoff
    THEN config.retry_delay_seconds * Pow2(retry_count - 1)
    ELSE config.retry_delay_seconds

\* BilibiliMonitor.check_multiple_up_masters inside _check_all_up_masters:
\* an exception of check_up_master (a fetch that throws or times out) is
\* caught and replaced by an empty report, so the pass returns
check_multiple_up_masters(fetch_fails) == "returns"

\* what one invocation of the task function does with its input
invoke(func, input) ==
    IF func = "_check_all_up_masters" THEN check_multiple_up_masters(input.fetch_fails)
    ELSE IF input.raises THEN "raises" ELSE "returns"

FuncInputs == [raises : BOOLEAN, fetch_fails : BOOLEAN]

TaskStatus == [last_error |-> None, error_count |-> 0, total_runs |-> 0, successful_runs |-> 0]

NoRun ==
    [pc |-> "idle", func |-> "generic",
     config |-> [max_retries |-> 0, retry_delay_seconds |-> 1, exponential_backoff |-> FALSE],
     retry_count |-> 0, last_error |-> None, delay |-> 0, status |-> TaskStatus,
     calls |-> 0, waits |-> <<>>, succeeded |-> FALSE, fetch_failed |-> FALSE,
     error_count_before |-> 0]

RetryIdle == run = NoRun

\* _execute_task_with_retry up to the loop: the status counts the run
ExecuteTask(config, func) ==
    /\ run.pc \in {"idle", "done"}
    /\ run.status.total_runs < MaxRuns
    /\ run' = [run EXCEPT !.pc = "call", !.func = func, !.config = config,
                          !.retry_count = 0, !.last_error = None, !.delay = 0,
                          !.status.total_runs = @ + 1,
                          !.calls = 0, !.waits = <<>>, !.succeeded = FALSE,
                          !.fetch_failed = FALSE,
                          !.error_count_before = run.status.error_count]

\* one pass of the while loop: await config.func(), then the success branch
\* or the except branch; after the last failed attempt the loop ends and the
\* status takes the error
CallFunc(input) ==
    /\ run.pc = "call"
    /\ LET result == invoke(run.func, input)
           retry_count == run.retry_count + 1
           seen == [run EXCEPT !.calls = @ + 1,
                               !.fetch_failed = @ \/ (run.func = "_check_all_up_masters"
                                                        /\ input.fetch_fails)]
       IN  run' =
             IF result = "returns"
             THEN [seen EXCEPT !.pc = "done", !.succeeded = TRUE,
                               !.status.successful_runs = @ + 1,
                               !.status.last_error = None,
                               !.status.error_count = 0]
             ELSE IF retry_count <= run.config.max_retries
             THEN [seen EXCEPT !.pc = "sleep", !.last_error = "error",
                               !.retry_count = retry_count,
                               !.delay = backoff_delay(run.config, retry_count)]
             ELSE [seen EXCEPT !.pc = "done", !.last_error = "error",
                               !.retry_count = retry_count,
                               !.status.last_error = "error",
                               !.status.error_count = @ + 1]

\* await asyncio.sleep(delay) returns
RetrySleep ==
    /\ run.pc = "sleep"
    /\ run' = [run EXCEPT !.pc = "call", !.waits = Append(@, run.delay)]

RetryNext ==
    \/ \E config \in RetryConfigs, func \in TaskFuncs : ExecuteTask(config, func)
    \/ \E input \in FuncInputs : CallFunc(input)
    \/ RetrySleep

----------------------------------------------------------------------------
(* services/report_aggregator.py: the importance score of one item, over
   published times before and after the current time *)

\* hours before and after AggNow that published times are drawn from
ScoreBehind == 80
ScoreAhead == 30

ScorePublished == {NoTime} \cup {At(t) : t \in (AggNow - ScoreBehind)..(AggNow + ScoreAhead)}

ScoreInputs ==
    [published : ScorePublished, has_summary : BOOLEAN,
     source : {"bilibili", "zhihu"}, bilibili_links : BOOLEAN]

\* the score as collect_bilibili_content and collect_zhihu_content assign it:
\* _calculate_importance, and for a Zhihu item with Bilibili links
\* min(1.0, importance + 0.1)
item_importance(in) ==
    LET importance == _calculate_importance(in.published, in.has_summary, in.source, AggNow)
    IN  IF in.source = "zhihu" /\ in.bilibili_links THEN Min(1000, importance + 100)
        ELSE importance

ScorePending == \E in \in ScoreInputs : score_io = [in |-> in, done |-> FALSE, score |-> 0]

ScoreIdle ==
    score_io = [in |-> [published |-> NoTime, has_summary |-> FALSE, source |-> "zhihu",
                        bilibili_links |-> FALSE],
                done |-> FALSE, score |-> 0]

\* the aggregator scores the item
ScoreItem ==
    /\ ~ score_io.done
    /\ score_io' = [score_io EXCEPT !.done = TRUE, !.score = item_importance(score_io.in)]

ScoreNext == ScoreItem

----------------------------------------------------------------------------
(* services/report_aggregator.py: the category of a title and a summary *)

\* the words titles and summaries are made of: keywords of every category in
\* lower and upper case, and a word that is no keyword
CatWords == {"biancheng", "AI", "ai", "youxi", "jiaocheng", "xinwen", "vlog", "VLOG", "hello"}

CatTitles == Seqs1To2(CatWords)

\* summary: None (the empty sequence) or one word
CatSummaries == {<<>>} \cup {<<w>> : w \in CatWords}

CatPending ==
    \E title \in CatTitles, summary \in CatSummaries :
        cat_io = [title |-> title, summary |-> summary, done |-> FALSE, category |-> "other"]

CatIdle == cat_io = [title |-> <<"hello">>, summary |-> <<>>, done |-> FALSE, category |-> "other"]

\* the aggregator categorises the item
Categorize ==
    /\ ~ cat_io.done
    /\ cat_io' = [cat_io EXCEPT !.done = TRUE,
                                !.category = _categorize_content(cat_io.title, cat_io.summary)]

CatNext == Categorize

----------------------------------------------------------------------------
(* services/content_search.py: ContentSearchEngine.remove_old_content *)

\* days goes up to MaxDays
MaxDays == 5

\* datetime.now() at the call, in hours on the scale of the Corpus times
RemoveNow == 200

\* cutoff = datetime.now() - timedelta(days=days)
cutoff_of(days) == RemoveNow - 24 * days

\* the condition of the list comprehension
kept(item, cutoff) == item.published.some /\ item.published.t >= cutoff

RECURSIVE keep_items(_, _)
keep_items(items, cutoff) ==
    IF items = <<>> THEN <<>>
    ELSE IF kept(Head(items), cutoff) THEN <<Head(items)>> \o keep_items(Tail(items), cutoff)
    ELSE keep_items(Tail(items), cutoff)

remove_old_content(items, days) == keep_items(items, cutoff_of(days))

NoRemove == [called |-> FALSE, days |-> 0, before |-> <<>>]

RemoveIdle == rm_last = NoRemove

\* index_content, on the engine remove_old_content is called on
RemoveIndexContent(items) ==
    /\ IndexContent(items)
    /\ UNCHANGED rm_last

RemoveOldContent(days) ==
    /\ content_index # <<>>
    /\ content_index' = remove_old_content(content_index, days)
    /\ rm_last' = [called |-> TRUE, days |-> days, before |-> content_index]
    /\ UNCHANGED search_out

RemoveNext ==
    \/ \E items \in Seqs1To2(Corpus) : RemoveIndexContent(items)
    \/ \E days \in 0..MaxDays : RemoveOldContent(days)

----------------------------------------------------------------------------
(* core/scheduler.py: SchedulerManager in its fallback mode
   (use_apscheduler false), where every task runs in an asyncio loop task *)

TaskIds == {"t1", "t2"}

\* the asyncio tasks that can be alive or referenced at once
MaxLoops == 2

LoopIds == 1..MaxLoops

\* no entry under a key of tasks / simple_tasks
NoTask == [present |-> FALSE, enabled |-> FALSE, interval |-> FALSE]
NoLoop == 0

\* TaskConfig as the fallback mode reads it: enabled, and whether it has
\* interval_minutes or interval_hours
TaskConfig(enabled, interval) == [present |-> TRUE, enabled |-> enabled, interval |-> interval]

\* an asyncio task running task_loop: not created, created and not yet run,
\* suspended in asyncio.sleep(interval), or done (returned or cancelled)
FreeLoop == [pc |-> "free", task_id |-> "t1"]

Live(loop) == loop.pc \in {"created", "sleeping"}

SchedIdle ==
    /\ sched = [is_running |-> FALSE,
                tasks |-> [id \in TaskIds |-> NoTask],
                simple_tasks |-> [id \in TaskIds |-> NoLoop]]
    /\ loops = [l \in LoopIds |-> FreeLoop]
    /\ hist = [ran |-> [id \in TaskIds |-> FALSE],
               quiet |-> [id \in TaskIds |-> FALSE],
               invoked_quiet |-> FALSE]

FreeLoops == {l \in LoopIds : loops[l].pc = "free"}

\* a loop task that is done and that simple_tasks does not hold any more is
\* garbage: its slot is free again
Collect(ls, simple_tasks) ==
    [l \in LoopIds |->
        IF ls[l].pc = "done" /\ \A id \in TaskIds : simple_tasks[id] # l
        THEN FreeLoop ELSE ls[l]]

\* task.cancel() when the task is not done
Cancel(ls, l) == IF l # NoLoop /\ Live(ls[l]) THEN [ls EXCEPT ![l].pc = "done"] ELSE ls

\* _add_simple_task : without an interval nothing is scheduled; otherwise a
\* new loop task is created and stored under the task_id, whatever was
\* stored there before
_add_simple_task(s, ls, id, l) ==
    IF ~ s.tasks[id].interval THEN [sched |-> s, loops |-> ls]
    ELSE LET simple_tasks == [s.simple_tasks EXCEPT ![id] = l]
         IN  [sched |-> [s EXCEPT !.simple_tasks = simple_tasks],
              loops |-> Collect([ls EXCEPT ![l] = [pc |-> "created", task_id |-> id]],
                                simple_tasks)]

\* start
Start ==
    /\ ~ sched.is_running
    /\ sched' = [sched EXCEPT !.is_running = TRUE]
    /\ hist' = [hist EXCEPT !.ran = [id \in TaskIds |-> FALSE]]
    /\ UNCHANGED loops

\* stop : the loop tasks held in simple_tasks are cancelled, and it is cleared
Stop ==
    /\ sched.is_running
    /\ LET simple_tasks == [id \in TaskIds |-> NoLoop]
           cancelled == [l \in LoopIds |->
                            IF Live(loops[l]) /\ \E id \in TaskIds : sched.simple_tasks[id] = l
                            THEN [loops[l] EXCEPT !.pc = "done"] ELSE loops[l]]
       IN  /\ sched' = [sched EXCEPT !.is_running = FALSE, !.simple_tasks = simple_tasks]
           /\ loops' = Collect(cancelled, simple_tasks)
    /\ hist' = [hist EXCEPT !.quiet = [id \in TaskIds |-> TRUE]]

\* add_task
AddTask(id, enabled, interval) ==
    /\ FreeLoops # {}
    /\ LET l == CHOOSE f \in FreeLoops : \A g \in FreeLoops : f <= g
           s == [sched EXCEPT !.tasks[id] = TaskConfig(enabled, interval)]
           out == IF ~ enabled THEN [sched |-> s, loops |-> loops]
                  ELSE _add_simple_task(s, loops, id, l)
       IN  /\ sched' = out.sched
           /\ loops' = out.loops
    /\ hist' = [hist EXCEPT !.ran[id] = FALSE, !.quiet[id] = FALSE]

\* remove_task
RemoveTask(id) ==
    /\ sched.tasks[id].present \/ sched.simple_tasks[id] # NoLoop
    /\ LET simple_tasks == [sched.simple_tasks EXCEPT ![id] = NoLoop]
       IN  /\ sched' = [sched EXCEPT !.tasks[id] = NoTask, !.simple_tasks = simple_tasks]
           /\ loops' = Collect(Cancel(loops, sched.simple_tasks[id]), simple_tasks)
    /\ hist' = [hist EXCEPT !.quiet[id] = TRUE]

\* enable_task
EnableTask(id) ==
    /\ sched.tasks[id].present
    /\ FreeLoops # {}
    /\ LET l == CHOOSE f \in FreeLoops : \A g \in FreeLoops : f <= g
           s == [sched EXCEPT !.tasks[id].enabled = TRUE]
           out == _add_simple_task(s, loops, id, l)
       IN  /\ sched' = out.sched
           /\ loops' = out.loops
    /\ hist' = [hist EXCEPT !.ran[id] = FALSE, !.quiet[id] = FALSE]

\* disable_task
DisableTask(id) ==
    /\ sched.tasks[id].present
    /\ LET simple_tasks == [sched.simple_tasks EXCEPT ![id] = NoLoop]
       IN  /\ sched' = [sched EXCEPT !.tasks[id].enabled = FALSE,
                                     !.simple_tasks = simple_tasks]
           /\ loops' = Collect(Cancel(loops, sched.simple_tasks[id]), simple_tasks)
    /\ hist' = [hist EXCEPT !.quiet[id] = TRUE]

\* task_loop finds `while self.is_running` false and returns
LoopExit(l) ==
    /\ Live(loops[l])
    /\ ~ sched.is_running
    /\ loops' = Collect([loops EXCEPT ![l].pc = "done"], sched.simple_tasks)
    /\ UNCHANGED <<sched, hist>>

\* task_loop runs _execute_task_with_retry and goes to sleep: the function of
\* the task is invoked when tasks still has the task_id
LoopExecute(l) ==
    /\ Live(loops[l])
    /\ sched.is_running
    /\ loops' = [loops EXCEPT ![l].pc = "sleeping"]
    /\ LET id == loops[l].task_id
       IN  hist' = IF sched.tasks[id].present
                   THEN [hist EXCEPT !.ran[id] = TRUE,
                                     !.invoked_quiet = @ \/ hist.quiet[id]]
                   ELSE hist
    /\ UNCHANGED sched

SchedNext ==
    \/ Start
    \/ Stop
    \/ \E id \in TaskIds, enabled \in BOOLEAN, interval \in BOOLEAN : AddTask(id, enabled, interval)
    \/ \E id \in TaskIds : RemoveTask(id)
    \/ \E id \in TaskIds : EnableTask(id)
    \/ \E id \in TaskIds : DisableTask(id)
    \/ \E l \in LoopIds : LoopExit(l)
    \/ \E l \in LoopIds : LoopExecute(l)

----------------------------------------------------------------------------
(* The specifications *)

vars == <<trackerVars, passVars, aggVars, archiveVars, searchVars, cmdVars, storeVars, retryVars, scoreVars, catVars, removeVars, schedVars>>

Init == TrackerInit /\ PassIdle /\ AggIdle /\ ArchiveIdle /\ SearchIdle /\ CmdIdle /\ StoreIdle /\ RetryIdle /\ ScoreIdle /\ CatIdle /\ RemoveIdle /\ SchedIdle

Next == TrackerNext /\ UNCHANGED <<passVars, aggVars, archiveVars, searchVars, cmdVars, storeVars, retryVars, scoreVars, catVars, removeVars, schedVars>>

Spec == Init /\ [][Next]_vars

PassInit == Init

PassStep == PassNext /\ UNCHANGED <<aggVars, archiveVars, searchVars, cmdVars, storeVars, retryVars, scoreVars, catVars, removeVars, schedVars>>

SpecPass == PassInit /\ [][PassStep]_vars

AggInit == TrackerInit /\ PassIdle /\ AggInputs /\ ArchiveIdle /\ SearchIdle /\ CmdIdle /\ StoreIdle /\ RetryIdle /\ ScoreIdle /\ CatIdle /\ RemoveIdle /\ SchedIdle

AggNext == AggregateAll /\ UNCHANGED <<trackerVars, passVars, archiveVars, searchVars, cmdVars, storeVars, retryVars, scoreVars, catVars, removeVars, schedVars>>

SpecAgg == AggInit /\ [][AggNext]_vars

ArchiveInit == Init

ArchiveStep == ArchiveNext /\ UNCHANGED <<trackerVars, passVars, aggVars, searchVars, cmdVars, storeVars, retryVars, scoreVars, catVars, removeVars, schedVars>>

SpecArchive == ArchiveInit /\ [][ArchiveStep]_vars

SearchInit == Init

SearchStep == SearchNext /\ UNCHANGED <<trackerVars, passVars, aggVars, archiveVars, cmdVars, storeVars, retryVars, scoreVars, catVars, removeVars, schedVars>>

SpecSearch == SearchInit /\ [][SearchStep]_vars

CmdInit == Init

CmdStep == CmdNext /\ UNCHANGED <<trackerVars, passVars, aggVars, archiveVars, storeVars, retryVars, scoreVars, catVars, removeVars, schedVars>>

SpecCmd == CmdInit /\ [][CmdStep]_vars

StoreInit == TrackerInit /\ PassIdle /\ AggIdle /\ ArchiveIdle /\ SearchIdle /\ CmdIdle /\ StoreManagers /\ RetryIdle /\ ScoreIdle /\ CatIdle /\ RemoveIdle /\ SchedIdle

StoreStep == StoreNext /\ UNCHANGED <<trackerVars, passVars, aggVars, archiveVars, searchVars, cmdVars, retryVars, scoreVars, catVars, removeVars, schedVars>>

SpecStore == StoreInit /\ [][StoreStep]_vars

RetryInit == Init

RetryStep == RetryNext /\ UNCHANGED <<trackerVars, passVars, aggVars, archiveVars, searchVars, cmdVars, storeVars, scoreVars, catVars, removeVars, schedVars>>

RetryFairness ==
    /\ WF_run(\E input \in FuncInputs : CallFunc(input))
    /\ WF_run(RetrySleep)

SpecRetry == RetryInit /\ [][RetryStep]_vars /\ RetryFairness

ScoreInit == TrackerInit /\ PassIdle /\ AggIdle /\ ArchiveIdle /\ SearchIdle /\ CmdIdle /\ StoreIdle /\ RetryIdle /\ ScorePending /\ CatIdle /\ RemoveIdle /\ SchedIdle

ScoreStep == ScoreNext /\ UNCHANGED <<trackerVars, passVars, aggVars, archiveVars, searchVars, cmdVars, storeVars, retryVars, catVars, removeVars, schedVars>>

SpecScore == ScoreInit /\ [][ScoreStep]_vars

CatInit == TrackerInit /\ PassIdle /\ AggIdle /\ ArchiveIdle /\ SearchIdle /\ CmdIdle /\ StoreIdle /\ RetryIdle /\ ScoreIdle /\ CatPending /\ RemoveIdle /\ SchedIdle

CatStep == CatNext /\ UNCHANGED <<trackerVars, passVars, aggVars, archiveVars, searchVars, cmdVars, storeVars, retryVars, scoreVars, removeVars, schedVars>>

SpecCat == CatInit /\ [][CatStep]_vars

RemoveInit == Init

RemoveStep == RemoveNext /\ UNCHANGED <<trackerVars, passVars, aggVars, archiveVars, cmdVars, storeVars, retryVars, scoreVars, catVars, schedVars>>

SpecRemove == RemoveInit /\ [][RemoveStep]_vars

SchedInit == Init

SchedStep == SchedNext /\ UNCHANGED <<trackerVars, passVars, aggVars, archiveVars, searchVars, cmdVars, storeVars, retryVars, scoreVars, catVars, removeVars>>

SchedFairness == \A l \in LoopIds : WF_schedVars(LoopExit(l) \/ LoopExecute(l))

SpecSched == SchedInit /\ [][SchedStep]_vars /\ SchedFairness

----------------------------------------------------------------------------
(* The identifier set of a source, and what the claims say of it *)

ItemSet(f) == Range(feeds[f].processed_items)
VideoSet(m) == up_masters[m].processed_videos

IdentifierSet(kind, src) == IF kind = "zhihu" THEN ItemSet(src) ELSE VideoSet(src)

\* the last n elements of s (all of s when it has fewer)
Suffix(s, n) == IF Len(s) <= n THEN s ELSE SubSeq(s, Len(s) - n + 1, Len(s))

\* C1: is_new(id) is true exactly when id is not in the source's identifier
\* set; right after mark_seen(id) the identifier is in the set, and an is_new(id)
\* that follows a mark_seen(id) on the same source returns false.
C1_DedupIdempotence ==
    /\ lastCall.op = "is_new" =>
          /\ lastCall.result = (lastCall.id \notin IdentifierSet(lastCall.kind, lastCall.src))
          /\ lastCall.afterMark => lastCall.result = FALSE
    /\ lastCall.op = "mark_seen" =>
          lastCall.id \in IdentifierSet(lastCall.kind, lastCall.src)

\* an is_new(id) right after a mark_seen(id) that had to evict, on each kind of source
C1_Witness ==
    /\ lastCall.op = "is_new" /\ lastCall.afterMark /\ ~ lastCall.result
    /\ \E f \in Feeds : Len(feed_log[f]) > ProcessedCap
    /\ \E m \in Mids : up_log[m] # <<>>

ZhihuFifo ==
    \A f \in Feeds :
        /\ Cardinality(ItemSet(f)) <= ProcessedCap
        /\ ItemSet(f) = Range(Suffix(feed_log[f], Cardinality(ItemSet(f))))

BilibiliFifo ==
    \A m \in Mids :
        /\ Cardinality(VideoSet(m)) <= ProcessedCap
        /\ VideoSet(m) = Range(Suffix(up_log[m], Cardinality(VideoSet(m))))

\* C2: the identifier set of every source holds at most cap identifiers, and
\* they are the most recently inserted ones (the oldest-inserted go first).
C2_FifoEviction == ZhihuFifo /\ BilibiliFifo

----------------------------------------------------------------------------
(* Monitoring passes: what the claims say of them *)

\* the configs a pass checks: check_multiple_feeds skips the disabled ones
CheckedConfigs ==
    IF pass.kind = "zhihu"
    THEN SelectSeq(pass.configs, LAMBDA c : c.enabled)
    ELSE pass.configs

SourceOf(config) == IF pass.kind = "zhihu" THEN config.feed_url ELSE config.mid

\* the identifiers of the new items a report carries
ReportedIds(report) ==
    IF pass.kind = "zhihu"
    THEN {get_id(report.new_items[k]) : k \in 1..Len(report.new_items)}
    ELSE {report.new_videos[k].bvid : k \in 1..Len(report.new_videos)}

\* C3: a pass returns one report per checked source, in configuration order;
\* the report of a source whose check failed carries no new items, and the
\* report of every other source carries exactly the identifiers of its own
\* batch that its own tracker did not hold, whatever happened to the other
\* sources. (When that check itself overflows the tracker, an identifier of the
\* batch that the overflow evicted is new again and may be reported too.)
C3_PassIsolation ==
    pass.status = "returned" =>
        /\ Len(pass.reports) = Len(CheckedConfigs)
        /\ Len(expect) = Len(CheckedConfigs)
        /\ \A k \in 1..Len(pass.reports) :
              /\ pass.reports[k].src = SourceOf(CheckedConfigs[k])
              /\ expect[k].src = SourceOf(CheckedConfigs[k])
              /\ expect[k].failed => ReportedIds(pass.reports[k]) = {}
              /\ ~ expect[k].failed =>
                    /\ expect[k].newIds \subseteq ReportedIds(pass.reports[k])
                    /\ ReportedIds(pass.reports[k]) \subseteq expect[k].batchIds
                    /\ ~ expect[k].evicts =>
                          ReportedIds(pass.reports[k]) = expect[k].newIds

\* a returned pass over two sources of each kind whose first check failed and
\* whose second check found new items
C3_WitnessKind(kind) ==
    /\ pass.status = "returned" /\ pass.kind = kind
    /\ Len(pass.reports) = 2
    /\ expect[1].failed /\ ~ expect[2].failed
    /\ expect[1].src # expect[2].src
    /\ ReportedIds(pass.reports[2]) # {}

C3_Witness == C3_WitnessKind("bilibili")

C3_WitnessZhihu == C3_WitnessKind("zhihu")

ZhihuLastCheck ==
    \A f \in Feeds : checked[f] > 0 => feeds[f].last_check_time = checked[f]

BilibiliLastCheck ==
    \A m \in Mids : checked[m] > 0 => up_masters[m].last_check_time = checked[m]

\* C9: after every check of a source, failed or not, the last-check time of the
\* source is the time of that check.
C9_LastCheckAlwaysSet == ZhihuLastCheck /\ BilibiliLastCheck

\* UPMasterState has no error counter: a state without one reads as 0 failures
ErrorCountOf(us) == IF "error_count" \in DOMAIN us THEN us.error_count ELSE 0

ZhihuErrorCounter ==
    \A f \in Feeds :
        /\ feeds[f].error_count = fails[f]
        /\ (feeds[f].last_error = None) <=> (fails[f] = 0)

BilibiliErrorCounter ==
    \A m \in Mids : ErrorCountOf(up_masters[m]) = fails[m]

\* C10: the error counter of every source is the number of failed checks since
\* its last successful check, and an error message is stored exactly while the
\* counter is not 0.
C10_ErrorCounter == ZhihuErrorCounter /\ BilibiliErrorCounter

LastExpect == expect[Len(expect)]
LastReport == pass.reports[Len(pass.reports)]

\* C11: a check that ended in failure left the identifier set of its source as
\* it was before the check
C11_FailureKeepsIdentifiers ==
    (expect # <<>> /\ LastExpect.failed) =>
        IdentifierSet(pass.kind, LastExpect.src) = LastExpect.before

\* C12: the empty string is in no identifier set, and no report carries an
\* item whose identifier is the empty string
C12_EmptyIdNeverNew ==
    /\ \A f \in Feeds : "" \notin ItemSet(f)
    /\ \A m \in Mids : "" \notin VideoSet(m)
    /\ \A k \in 1..Len(pass.reports) : "" \notin ReportedIds(pass.reports[k])

\* whether a report carries a malformed record
ReportsMalformed(report) ==
    IF pass.kind = "zhihu"
    THEN \E k \in 1..Len(report.new_items) : ~ WellFormedEntry(report.new_items[k])
    ELSE \E k \in 1..Len(report.new_videos) : report.new_videos[k].bvid = ""

\* C13: after a check whose batch held a malformed record and that met no
\* other failure, the report carries no malformed record and carries every
\* well-formed record of the batch that the tracker did not hold
C13_MalformedSkipped ==
    (expect # <<>> /\ Len(pass.reports) = Len(expect)
       /\ LastExpect.malformed /\ ~ LastExpect.otherFailure) =>
        /\ ~ ReportsMalformed(LastReport)
        /\ (LastExpect.wellFormed \ LastExpect.before) \subseteq ReportedIds(LastReport)

----------------------------------------------------------------------------
(* What the claims say of aggregate_all *)

Sections == agg_out.report.sections

\* C4: every CategorySection of the DailyReport aggregate_all returns holds at
\* most max_items_per_category items, equal items included
C4_CategoryCap ==
    agg_out.status = "returned" =>
        \A i \in 1..Len(Sections) :
            Len(Sections[i].items) <= agg_in.max_items_per_category

\* C14: aggregate_all returns a DailyReport whatever reports it is given, and
\* the report of a call that kept no item has total_items 0 and no sections
C14_NeverRaises ==
    agg_out.status # "pending" =>
        /\ agg_out.status = "returned"
        /\ (Sections = <<>>) <=> (agg_out.report.total_items = 0)

\* the feed items given to aggregate_all, in arrival order
RECURSIVE InputItemsOf(_)
InputItemsOf(reports) ==
    IF reports = <<>> THEN <<>>
    ELSE Head(reports).new_items \o InputItemsOf(Tail(reports))

InputItems == InputItemsOf(agg_in.zhihu_reports)

\* the items of the report, section after section
RECURSIVE ItemsOfSections(_)
ItemsOfSections(sections) ==
    IF sections = <<>> THEN <<>>
    ELSE Head(sections).items \o ItemsOfSections(Tail(sections))

ReportItems == ItemsOfSections(Sections)

\* C15: every item of the report has importance_score >= min_importance and,
\* when since is given and the item has a published time, published >= since;
\* and since drops no item without a published time: with min_importance 0 and
\* a cap no smaller than the number of items given, every such item is in the
\* report
C15_FiltersApplied ==
    agg_out.status = "returned" =>
        /\ \A i \in 1..Len(ReportItems) :
               /\ ReportItems[i].importance_score >= agg_in.min_importance
               /\ (agg_in.since.some /\ ReportItems[i].published.some) =>
                      ReportItems[i].published.t >= agg_in.since.t
        /\ (agg_in.min_importance = 0
              /\ Len(InputItems) <= agg_in.max_items_per_category) =>
               \A k \in 1..Len(InputItems) :
                   ~ InputItems[k].published.some =>
                       \E i \in 1..Len(ReportItems) :
                           /\ ReportItems[i].url = InputItems[k].link
                           /\ ~ ReportItems[i].published.some

\* of two items of one category the importance filter dropped one: the report
\* holds one item although two items were given and the cap is 2
C15_Witness ==
    /\ agg_out.status = "returned"
    /\ agg_in.min_importance = 700
    /\ agg_in.max_items_per_category = 2
    /\ Len(InputItems) = 2
    /\ InputItems[1].title = InputItems[2].title
    /\ agg_out.report.total_items = 1
    /\ Len(ReportItems) = 1

CountSource(items, source) ==
    Cardinality({i \in 1..Len(items) : items[i].source = source})

SectionItems(category) ==
    IF get_section(agg_out.report, category) = 0 THEN <<>>
    ELSE Sections[get_section(agg_out.report, category)].items

\* the items that passed the since and importance filters, by importance,
\* those of equal importance in arrival order
PassedSorted ==
    SortByImportance(
        filter_importance(collect_zhihu_content(agg_in.zhihu_reports, agg_in.since,
                                                AggNow, <<>>),
                          agg_in.min_importance),
        <<>>)

\* C17: the section of each category holds the first max_items_per_category
\* items of that category in the order of importance, ties in arrival order,
\* and so lists its items in non-increasing importance_score
C17_TopItemsPerCategory ==
    agg_out.status = "returned" =>
        \A c \in AllCategories :
            /\ SectionItems(c) =
                   FirstN(SelectSeq(PassedSorted, LAMBDA item : item.category = c),
                          agg_in.max_items_per_category)
            /\ \A i, j \in 1..Len(SectionItems(c)) :
                   i < j => SectionItems(c)[i].importance_score
                               >= SectionItems(c)[j].importance_score

----------------------------------------------------------------------------
(* What the claims say of the archive store *)

UniqueIds(archives) ==
    \A i, j \in 1..Len(archives) :
        archives[i].archive_id = archives[j].archive_id => i = j

EntriesOf(archives, archive_id) ==
    {i \in 1..Len(archives) : archives[i].archive_id = archive_id}

DeleteAtomic ==
    (arch_last.op = "delete" /\ arch_last.found /\ arch_last.persisted_before) =>
        LET a == arch_last.archive_id
        IN  /\ PayloadPresent(files, a) = InMemory(index, a)
            /\ InMemory(index, a) = InPersisted(index_file, a)

DeleteMissingPayload ==
    (arch_last.op = "delete" /\ arch_last.found /\ ~ arch_last.payload_before) =>
        /\ arch_last.returned
        /\ ~ InMemory(index, arch_last.archive_id)

\* C6: after delete_archive of an id the index held, in memory and in the index
\* file, the payload file and the entry of the id in memory and in the index
\* file are all present or all absent; and a delete that finds the payload file
\* missing removes the entry and returns True
C6_DeleteAtomicity == DeleteAtomic /\ DeleteMissingPayload

----------------------------------------------------------------------------
(* What the claims say of search *)

Results == search_out.results
Query == search_out.query

\* C7: every item search returns satisfies every active filter of the query:
\* the categories and the sources when the list is not empty, each importance
\* bound that is set, a bound of 0 included, and, for an item that has a
\* published time, each date bound that is set
C7_FilterCorrectness ==
    search_out.done =>
        \A i \in 1..Len(Results) :
            LET item == Results[i].item
            IN  /\ Query.categories # {} => item.category \in Query.categories
                /\ Query.sources # {} => item.source \in Query.sources
                /\ Query.min_importance.some =>
                       item.importance_score >= Query.min_importance.x
                /\ Query.max_importance.some =>
                       item.importance_score <= Query.max_importance.x
                /\ (item.published.some /\ Query.start_date.some) =>
                       item.published.t >= Query.start_date.t
                /\ (item.published.some /\ Query.end_date.some) =>
                       item.published.t <= Query.end_date.t

\* a search with the upper importance bound 0.0 returned the item of importance
\* 0 and left out an indexed item of higher importance
C7_Witness ==
    /\ search_out.done
    /\ Query.max_importance = Bound(0)
    /\ Results # <<>>
    /\ \E i \in 1..Len(content_index) : content_index[i].importance_score > 0

\* whether a searched field of the item holds a keyword of the query, both
\* lower-cased unless the query is case sensitive
HoldsKeyword(item, query) ==
    \E f \in query.search_in, k \in 1..Len(query.keywords) :
        LET text == FieldText(item, f)
        IN  \E w \in 1..Len(text) :
                IF query.case_sensitive THEN text[w] = query.keywords[k]
                ELSE Lower(text[w]) = Lower(query.keywords[k])

\* C8: when the query has keywords, no result has relevance_score 0 and every
\* item returned holds a keyword in one of the searched fields
C8_ZeroExclusion ==
    (search_out.done /\ Query.keywords # <<>>) =>
        \A i \in 1..Len(Results) :
            /\ Results[i].relevance_score # 0
            /\ HoldsKeyword(Results[i].item, Query)

\* a search with keywords returned an item and left out an indexed item that
\* passes the filters and holds no keyword
C8_Witness ==
    /\ search_out.done
    /\ Query.keywords # <<>>
    /\ Results # <<>>
    /\ \E i \in 1..Len(content_index) :
           /\ _matches_filters(content_index[i], Query)
           /\ ~ HoldsKeyword(content_index[i], Query)

\* the filters as the claims state them
InDateRange(item, query) ==
    \/ ~ item.published.some
    \/ /\ query.start_date.some => item.published.t >= query.start_date.t
       /\ query.end_date.some => item.published.t <= query.end_date.t

PassesFilters(item, query) ==
    /\ query.categories = {} \/ item.category \in query.categories
    /\ query.sources = {} \/ item.source \in query.sources
    /\ query.min_importance.some => item.importance_score >= query.min_importance.x
    /\ query.max_importance.some => item.importance_score <= query.max_importance.x
    /\ InDateRange(item, query)
    /\ query.keywords # <<>> => HoldsKeyword(item, query)

\* C18: when the page holds all results (offset 0 and a limit no smaller than
\* the index), every indexed item that passes the category, source and
\* importance filters, has a published time inside the date range or none, and
\* holds a keyword when keywords are given, is in the results
C18_SearchComplete ==
    (search_out.done /\ Query.offset = 0 /\ Query.limit >= Len(content_index)) =>
        \A k \in 1..Len(content_index) :
            PassesFilters(content_index[k], Query) =>
                \E i \in 1..Len(Results) : Results[i].item = content_index[k]

\* a search with a start date returned an item without a published time and
\* left out an indexed item
C18_Witness ==
    /\ search_out.done
    /\ Query.start_date.some
    /\ Query.offset = 0 /\ Query.limit >= Len(content_index)
    /\ \E i \in 1..Len(Results) : ~ Results[i].item.published.some
    /\ Len(Results) < Len(content_index)

\* the matching results before they are sorted
Matching == filter_and_score(content_index, Query)

\* the key of the configured order; no published time is the minimum
KeyOf(result) ==
    CASE Query.sort_by = "relevance" -> result.relevance_score
      [] Query.sort_by = "importance" -> result.item.importance_score
      [] Query.sort_by = "date" ->
             IF result.item.published.some THEN result.item.published.t ELSE -1

\* a comes before b in the configured order
Before(a, b) ==
    IF Query.sort_order = "desc" THEN KeyOf(a) > KeyOf(b) ELSE KeyOf(a) < KeyOf(b)

Occurrences(results, result) ==
    Cardinality({k \in 1..Len(results) : results[k] = result})

Max(a, b) == IF a >= b THEN a ELSE b

\* C19: the results are the places offset+1 .. offset+limit of the matching
\* results in the configured order: as many as the page holds, each a matching
\* result, the one at place p with at most offset+p-1 matching results before
\* it and at least offset+p that are not after it; by date in descending order
\* no item without a published time precedes an item with one
C19_SortedPage ==
    search_out.done =>
        /\ Len(Results) = Max(0, Min(Query.limit, Len(Matching) - Query.offset))
        /\ \A p \in 1..Len(Results) :
               /\ Occurrences(Results, Results[p]) <= Occurrences(Matching, Results[p])
               /\ Cardinality({k \in 1..Len(Matching) : Before(Matching[k], Results[p])})
                      <= Query.offset + p - 1
               /\ Cardinality({k \in 1..Len(Matching) : ~ Before(Results[p], Matching[k])})
                      >= Query.offset + p
        /\ (Query.sort_by = "date" /\ Query.sort_order = "desc") =>
               \A i, j \in 1..Len(Results) :
                   i < j => ~ (~ Results[i].item.published.some
                               /\ Results[j].item.published.some)

\* a search by date in descending order returned an item with a published time
\* before an item without one that is indexed before it
C19_Witness ==
    /\ search_out.done
    /\ Query.sort_by = "date" /\ Query.sort_order = "desc"
    /\ Len(Results) = 2
    /\ Results[1].item.published.some
    /\ ~ Results[2].item.published.some
    /\ content_index[1] = Results[2].item

----------------------------------------------------------------------------
(* C20: the index at the moment a command runs its query *)

\* C20: every /search or /filter command runs its query, and at that moment
\* the search index holds exactly the items of the content history, each once
\* and in the order of the history, whatever commands ran before it on the
\* same plugin instance; the index statistics count exactly those items
C20_IndexIsHistory ==
    cmd_last.cmd # "none" =>
        /\ cmd_last.ran_query
        /\ cmd_last.index = cmd_last.history
        /\ cmd_last.total_items = Len(cmd_last.history)

\* the part of C20 that is about the index alone: it holds after /filter and
\* after a first /search, and fails after a second /search
C20_IndexOnly ==
    cmd_last.cmd # "none" => cmd_last.index = cmd_last.history

\* the same after /filter only, where clear_index runs first
C20_FilterIndex ==
    cmd_last.cmd = "filter" => cmd_last.index = cmd_last.history

C20_FilterWitness ==
    /\ cmd_last.cmd = "filter"
    /\ cmd_last.history # <<>>
    /\ cmd_last.index = cmd_last.history

----------------------------------------------------------------------------
(* C21: a save leaves a complete snapshot in the state file *)

CompleteSnapshot(file) == file.kind = "json" /\ file.shape = "snapshot"

\* C21: after a save of either manager that started from a complete snapshot
\* on disk, however the save ended, the state file holds the complete previous
\* snapshot or a complete new one, and loading it gives the state of the
\* previous file or the state that was saved
C21_SaveAtomic ==
    (io_last.op = "save" /\ CompleteSnapshot(io_last.before)) =>
        /\ io_last.after \in {io_last.before} \cup io_last.dumps
        /\ load_file(store.which, io_last.after).state
              \in {load_file(store.which, io_last.before).state, io_last.state}

\* the same for the Zhihu manager alone, which writes a temporary file first
C21_ZhihuSaveAtomic ==
    (store.which = "zhihu" /\ io_last.op = "save" /\ CompleteSnapshot(io_last.before)) =>
        /\ io_last.after \in {io_last.before} \cup io_last.dumps
        /\ load_file(store.which, io_last.after).state
              \in {load_file(store.which, io_last.before).state, io_last.state}

C21_ZhihuWitness ==
    /\ store.which = "zhihu"
    /\ io_last.op = "save"
    /\ io_last.outcome \in {"dump_fails", "killed"}
    /\ CompleteSnapshot(io_last.before)
    /\ io_last.after = io_last.before
    /\ io_last.state.ids # io_last.before.ids

----------------------------------------------------------------------------
(* C22: loading a damaged state file *)

\* C22: a load of either manager never raises, and a state file that is
\* unreadable, not JSON, or JSON of another shape gives the empty state
C22_LoadNeverRaises ==
    io_last.op = "load" =>
        /\ io_last.raised = "none"
        /\ ~ (io_last.before.kind = "absent" \/ CompleteSnapshot(io_last.before))
              => io_last.state = EmptyState(store.which)

\* the same for the Bilibili manager and the files its except clause covers:
\* unreadable, not JSON, truncated, and the shapes that make the parse fail
C22_BilibiliLoad ==
    (store.which = "bilibili" /\ io_last.op = "load") =>
        /\ io_last.raised = "none"
        /\ (io_last.before.kind \in {"unreadable", "not_json", "partial"}
              \/ io_last.before.shape \in {"top_list", "up_masters_not_object", "up_bad_time"})
              => io_last.state = EmptyState("bilibili")

\* the part of C22 about raising alone: no load raises
C22_NoLoadRaises ==
    io_last.op = "load" => io_last.raised = "none"

----------------------------------------------------------------------------
(* C24: one execution of a scheduled task *)

RunDone == run.pc = "done"

ExpectedWait(k) ==
    IF run.config.exponential_backoff
    THEN run.config.retry_delay_seconds * Pow2(k - 1)
    ELSE run.config.retry_delay_seconds

C24_Bounded ==
    /\ run.calls <= run.config.max_retries + 1
    /\ \A k \in 1..Len(run.waits) : run.waits[k] = ExpectedWait(k)
    /\ run.pc = "sleep" => run.delay = ExpectedWait(Len(run.waits) + 1)
    /\ run.pc = "call" => run.calls = Len(run.waits)
    /\ run.pc = "sleep" => run.calls = Len(run.waits) + 1

C24_Outcome ==
    RunDone =>
        /\ run.calls = Len(run.waits) + 1
        /\ run.succeeded =>
              /\ run.status.error_count = 0
              /\ run.status.last_error = None
        /\ ~ run.succeeded =>
              /\ run.calls = run.config.max_retries + 1
              /\ run.status.error_count = run.error_count_before + 1
              /\ run.status.last_error # None

\* C24: an execution invokes the task function at most max_retries + 1 times
\* and stops at the first success; the k-th retry is preceded by a wait of
\* retry_delay_seconds * 2^(k-1) with exponential_backoff and of
\* retry_delay_seconds without, and no wait follows the last failed attempt;
\* the execution ends, with error_count 0 and last_error cleared on success,
\* and error_count one higher and last_error set when every attempt failed
C24_RetryContract ==
    /\ [](C24_Bounded /\ C24_Outcome)
    /\ (run.pc = "call") ~> RunDone

C24_Witness ==
    /\ RunDone
    /\ ~ run.succeeded
    /\ run.config.exponential_backoff
    /\ run.config.retry_delay_seconds = 60
    /\ run.waits = <<60, 120>>
    /\ run.calls = 3
    /\ run.status.error_count = 2

----------------------------------------------------------------------------
(* C23: a monitoring check that hits a transient failure *)

\* C23: when the monitoring pass run as a task met a failing fetch and the
\* task allows a retry, the execution runs the pass again after a backoff
\* wait before it ends
C23_TransientFailureRetried ==
    (RunDone /\ run.func = "_check_all_up_masters" /\ run.fetch_failed
       /\ run.config.max_retries >= 1) =>
        /\ run.calls >= 2
        /\ Len(run.waits) >= 1

\* the part of C23 that holds: a failing fetch does not end the pass with an
\* exception
C23_PassDoesNotCrash ==
    (RunDone /\ run.func = "_check_all_up_masters") => run.succeeded

----------------------------------------------------------------------------
(* C25: the importance score stays in [0.0, 1.0] *)

\* C25: for every published time (absent, past, or later than the current
\* time), has_summary flag and source, the score the aggregator assigns,
\* with the boost for Zhihu items that carry Bilibili links, is between 0.0
\* and 1.0 (0 and 1000 thousandths)
C25_ScoreBounds ==
    score_io.done => (0 <= score_io.score /\ score_io.score <= 1000)

C25_Witness ==
    /\ score_io.done
    /\ score_io.in.published.some
    /\ score_io.in.published.t > AggNow
    /\ score_io.in.source = "zhihu"
    /\ score_io.in.bilibili_links
    /\ score_io.score = 1000

----------------------------------------------------------------------------
(* C26: the category is the one with the most keyword matches, whatever the
   letter case *)

CatText == LowerText(cat_io.title) \o LowerText(cat_io.summary)

\* the keywords of a category found in the text when letter case is ignored
\* on both sides
MatchCount(category) ==
    Cardinality({k \in category_keywords(category) : Contains(CatText, Lower(k))})

MatchedCategories == {i \in 1..Len(Categories) : MatchCount(Categories[i]) > 0}

IsBestCategory(i) ==
    /\ i \in MatchedCategories
    /\ \A j \in MatchedCategories :
          \/ MatchCount(Categories[j]) < MatchCount(Categories[i])
          \/ MatchCount(Categories[j]) = MatchCount(Categories[i]) /\ i <= j

\* C26: the category returned is the one whose keywords match the text most
\* often, letter case ignored, the first-declared one on a tie, and OTHER
\* exactly when no keyword of any category matches; the upper-case keyword
\* AI is matched in whatever case the text has it
C26_CategoryByKeywords ==
    cat_io.done =>
        /\ (cat_io.category = "other") <=> (MatchedCategories = {})
        /\ \A i \in 1..Len(Categories) :
              IsBestCategory(i) => cat_io.category = Categories[i]

\* the same for texts without the word AI in any case: there the claim holds
C26_WithoutUpperCaseKeyword ==
    (cat_io.done /\ ~ Contains(CatText, "ai")) =>
        /\ (cat_io.category = "other") <=> (MatchedCategories = {})
        /\ \A i \in 1..Len(Categories) :
              IsBestCategory(i) => cat_io.category = Categories[i]

----------------------------------------------------------------------------
(* C27: what remove_old_content removes *)

\* the index right after the latest call of remove_old_content
JustRemoved ==
    rm_last.called /\ Len(content_index) <= Len(rm_last.before)
       /\ content_index = remove_old_content(rm_last.before, rm_last.days)

OlderThanCutoff(item) ==
    item.published.some /\ item.published.t < cutoff_of(rm_last.days)

NotOld(item) == ~ OlderThanCutoff(item)

Dated(item) == item.published.some

\* C27: after remove_old_content(days) the index holds the items it held
\* before, in the same order, without exactly those published before the
\* current time minus days; items published inside the window and items
\* without a published time are still there
C27_RemovesExactlyOld ==
    JustRemoved => content_index = SelectSeq(rm_last.before, NotOld)

\* the same for the dated items alone: there the claim holds
C27_DatedItems ==
    JustRemoved =>
        SelectSeq(content_index, Dated)
            = SelectSeq(SelectSeq(rm_last.before, NotOld), Dated)

----------------------------------------------------------------------------
(* C28: in the fallback scheduler an enabled task with an interval runs *)

Scheduled(id) ==
    /\ sched.is_running
    /\ sched.tasks[id].present
    /\ sched.tasks[id].enabled
    /\ sched.tasks[id].interval

\* C28: whenever the scheduler is running and a task is enabled and has an
\* interval, the task is executed afterwards, unless the scheduler is stopped
\* or the task is disabled or removed first; this covers a task added before
\* start() and a scheduler started again after stop()
C28_EnabledTaskRuns ==
    \A id \in TaskIds : Scheduled(id) ~> (hist.ran[id] \/ ~ Scheduled(id))

\* the same for a task that has a live loop: there the task is executed
C28_LiveLoopRuns ==
    \A id \in TaskIds :
        (Scheduled(id) /\ \E l \in LoopIds : Live(loops[l]) /\ loops[l].task_id = id)
            ~> (hist.ran[id] \/ ~ Scheduled(id))

----------------------------------------------------------------------------
(* C29: one live loop per task, and none after the task was stopped *)

LiveLoopsOf(id) == {l \in LoopIds : Live(loops[l]) /\ loops[l].task_id = id}

\* C29: after any sequence of add_task, enable_task, disable_task and
\* remove_task there is at most one live loop per task_id, and after
\* disable_task(id), remove_task(id) or stop() the function of the task is
\* not invoked until the task is enabled or added again
C29_OneLoopPerTask ==
    /\ \A id \in TaskIds : Cardinality(LiveLoopsOf(id)) <= 1
    /\ ~ hist.invoked_quiet

\* the part of C29 about invocations alone
C29_NoInvocationWhenQuiet == ~ hist.invoked_quiet

----------------------------------------------------------------------------
(* C30: an identifier is reported as new once *)

NewItemsOf(report) == IF pass.kind = "zhihu" THEN report.new_items ELSE report.new_videos

\* no two new items of the report have the same identifier
NoDuplicateIds(report) == Len(NewItemsOf(report)) = Cardinality(ReportedIds(report))

\* the checks of the pass in progress, each with what its source held before
ChecksMade == IF Len(pass.reports) = Len(expect) THEN 1..Len(expect) ELSE {}

\* a check that overflows the tracker evicts identifiers while it runs; what
\* it evicted is not held any more when the batch reaches it
NotReportedWhileHeld(k) ==
    ~ expect[k].evicts => ReportedIds(pass.reports[k]) \cap expect[k].before = {}

\* C30: a check reports no identifier that the identifier set of its source
\* held before the check and still holds, the identifiers it reports are in
\* that set after the check, and no report carries two new items with the same identifier,
\* also when the fetched batch holds an identifier twice
C30_ReportedOnce ==
    /\ \A k \in ChecksMade :
          /\ NotReportedWhileHeld(k)
          /\ NoDuplicateIds(pass.reports[k])
    /\ (ChecksMade # {} /\ pass.status = "running" /\ ~ LastExpect.evicts) =>
          ReportedIds(LastReport) \subseteq IdentifierSet(pass.kind, LastExpect.src)

\* the same for Zhihu checks alone, where check_feed marks each item as it
\* goes through the batch
C30_ZhihuReportedOnce ==
    pass.kind = "zhihu" =>
        /\ \A k \in ChecksMade :
              /\ NotReportedWhileHeld(k)
              /\ NoDuplicateIds(pass.reports[k])
        /\ (ChecksMade # {} /\ pass.status = "running" /\ ~ LastExpect.evicts) =>
              ReportedIds(LastReport) \subseteq IdentifierSet(pass.kind, LastExpect.src)

C30_ZhihuWitness ==
    /\ pass.kind = "zhihu"
    /\ ChecksMade # {}
    /\ LastExpect.batchIds = {"a"}
    /\ Len(NewItemsOf(LastReport)) = 1
    /\ \E k \in ChecksMade : Len(NewItemsOf(pass.reports[k])) = 1 /\ k < Len(expect)

====
